---- MODULE Spec2Model ----
(***************************************************************************)
(* A model of the sum-100 expression search: the expression tree (number,  *)
(* concatenation, unary and binary nodes, the equation wrapper), its       *)
(* evaluation and text rendering, and the two search engines of the        *)
(* repository: the ordered recursive search (findCombinationsRecursive)    *)
(* and the older index-set search (generateRecursive).                     *)
(***************************************************************************)
EXTENDS Integers, Sequences, FiniteSets, TLC

(***************************************************************************)
(* Numbers.  A JavaScript number is modelled exactly where the search can  *)
(* tell values apart:                                                      *)
(*   "rat"  the rational n/d in lowest terms, d > 0                         *)
(*   "irr"  an irrational real whose floor is n (a square root of a        *)
(*          non-square)                                                     *)
(*   "big"  a finite value of sign n whose magnitude is above ValCap       *)
(*   "inf"  +Infinity or -Infinity (sign n), "nan"  NaN                     *)
(***************************************************************************)
ValCap == 2000000000

Abs(x) == IF x < 0 THEN -x ELSE x

\* the element of a one-element set: The({f(r) : r \in {e}}) is f(e) with e
\* evaluated once
The(S) == CHOOSE x \in S : TRUE

Sgn(x) == IF x < 0 THEN -1 ELSE IF x = 0 THEN 0 ELSE 1

RECURSIVE Gcd(_, _)
Gcd(a, b) == IF b = 0 THEN a ELSE The({Gcd(b, r) : r \in {a % b}})

Rat(n, d) ==
    LET s == IF d < 0 THEN -1 ELSE 1
    IN The({[k |-> "rat", n |-> (s * n) \div g, d |-> (s * d) \div g] :
               g \in {Gcd(Abs(n), Abs(d))}})

IntV(n) == [k |-> "rat", n |-> n, d |-> 1]
Irr(f) == [k |-> "irr", n |-> f, d |-> 1]
BigV(s) == [k |-> "big", n |-> s, d |-> 1]
InfV(s) == [k |-> "inf", n |-> s, d |-> 1]
NaNV == [k |-> "nan", n |-> 0, d |-> 1]

\* A combination of values the exact arithmetic does not cover: evaluating it
\* stops the model checker instead of guessing a result.
Unsupported(what) == CHOOSE v \in {} : v = what

IsRat(v) == v.k = "rat"
IsFinite(v) == v.k \in {"rat", "irr", "big"}
IsInteger(v) == (v.k = "rat" /\ v.d = 1) \/ v.k = "big"
IsZero(v) == v.k = "rat" /\ v.n = 0

\* the sign of a value (NaN has none: comparisons with NaN are false)
SignOf(v) ==
    CASE v.k = "rat" -> Sgn(v.n)
      [] v.k = "irr" -> IF v.n < 0 THEN -1 ELSE 1
      [] v.k \in {"big", "inf"} -> v.n
      [] OTHER -> 0

\* a * b fits the model's integers
MulFits(a, b) == a = 0 \/ b = 0 \/ Abs(a) <= ValCap \div Abs(b)

\* floor of the square root of x >= 0, by bisection on lo..hi
RECURSIVE IsqrtIn(_, _, _)
IsqrtIn(x, lo, hi) ==
    IF lo >= hi THEN lo
    ELSE The({IF mid <= x \div mid THEN IsqrtIn(x, mid, hi) ELSE IsqrtIn(x, lo, mid - 1) :
                 mid \in {(lo + hi + 1) \div 2}})

Isqrt(x) == IF x = 0 THEN 0 ELSE IsqrtIn(x, 1, 46340)

IsSquare(x) == x >= 0 /\ \E r \in {Isqrt(x)} : r * r = x

\* -v
NegV(v) ==
    CASE v.k = "rat" -> Rat(-v.n, v.d)
      [] v.k = "irr" -> Irr(-v.n - 1)
      [] v.k = "big" -> BigV(-v.n)
      [] v.k = "inf" -> InfV(-v.n)
      [] OTHER -> NaNV

\* a + b
AddV(a, b) ==
    CASE a.k = "nan" \/ b.k = "nan" -> NaNV
      [] a.k = "inf" /\ b.k = "inf" -> IF a.n = b.n THEN a ELSE NaNV
      [] a.k = "inf" -> a
      [] b.k = "inf" -> b
      [] a.k = "big" /\ b.k = "big" ->
            IF a.n = b.n THEN a ELSE Unsupported("big - big")
      [] a.k = "big" -> a
      [] b.k = "big" -> b
      [] a.k = "irr" /\ b.k = "irr" -> Unsupported("irr + irr")
      [] a.k = "irr" -> IF b.d = 1 /\ Abs(b.n) < ValCap - Abs(a.n) - 1
                        THEN Irr(a.n + b.n) ELSE Unsupported("irr + fraction")
      [] b.k = "irr" -> IF a.d = 1 /\ Abs(a.n) < ValCap - Abs(b.n) - 1
                        THEN Irr(a.n + b.n) ELSE Unsupported("fraction + irr")
      [] OTHER ->
            IF MulFits(a.n, b.d) /\ MulFits(b.n, a.d) /\ MulFits(a.d, b.d)
               /\ Abs(a.n * b.d) <= ValCap - Abs(b.n * a.d)
            THEN Rat(a.n * b.d + b.n * a.d, a.d * b.d)
            ELSE IF a.d = 1 /\ b.d = 1 /\ Sgn(a.n) = Sgn(b.n)
                 THEN BigV(Sgn(a.n))
                 ELSE Unsupported("rational sum above ValCap")

\* a - b
SubV(a, b) == AddV(a, NegV(b))

\* a * b
MulV(a, b) ==
    CASE a.k = "nan" \/ b.k = "nan" -> NaNV
      [] a.k = "inf" \/ b.k = "inf" ->
            IF IsZero(a) \/ IsZero(b) THEN NaNV ELSE InfV(SignOf(a) * SignOf(b))
      [] IsZero(a) \/ IsZero(b) -> IntV(0)
      [] a.k = "rat" /\ b.k = "rat" ->
            IF MulFits(a.n, b.n) /\ MulFits(a.d, b.d)
            THEN Rat(a.n * b.n, a.d * b.d)
            ELSE IF a.d = 1 /\ b.d = 1
                 THEN BigV(Sgn(a.n) * Sgn(b.n))
                 ELSE Unsupported("rational product above ValCap")
      [] a.k = "big" /\ b.k = "rat" /\ Abs(b.n) >= b.d -> BigV(a.n * Sgn(b.n))
      [] b.k = "big" /\ a.k = "rat" /\ Abs(a.n) >= a.d -> BigV(b.n * Sgn(a.n))
      [] OTHER -> Unsupported("product")

\* a / b for b # 0 (the caller has thrown on b === 0)
DivV(a, b) ==
    CASE a.k = "nan" \/ b.k = "nan" -> NaNV
      [] a.k = "inf" -> IF b.k = "inf" THEN NaNV ELSE InfV(a.n * SignOf(b))
      [] b.k = "inf" -> IntV(0)
      [] IsZero(a) -> IntV(0)
      [] a.k = "rat" /\ b.k = "rat" ->
            IF MulFits(a.n, b.d) /\ MulFits(a.d, b.n)
            THEN Rat(a.n * b.d, a.d * b.n)
            ELSE Unsupported("rational quotient above ValCap")
      [] a.k = "big" /\ b.k = "rat" /\ Abs(b.n) <= b.d -> BigV(a.n * Sgn(b.n))
      [] OTHER -> Unsupported("quotient")

\* the integer part of n/d, rounded toward zero (d > 0)
Trunc(n, d) == IF n >= 0 THEN n \div d ELSE -((-n) \div d)

\* a % b for b # 0: the remainder has the sign of the dividend
ModV(a, b) ==
    CASE a.k = "nan" \/ b.k = "nan" -> NaNV
      [] a.k = "inf" -> NaNV
      [] b.k = "inf" -> a
      [] a.k = "rat" /\ b.k = "rat" ->
            IF MulFits(a.n, b.d) /\ MulFits(a.d, b.n) /\ MulFits(a.d, b.d)
            THEN LET x == a.n * b.d          \* a = x / (a.d * b.d)
                     y == Abs(b.n) * a.d     \* |b| = y / (a.d * b.d)
                     q == Trunc(x, y)
                 IN Rat(x - q * y, a.d * b.d)
            ELSE Unsupported("rational remainder above ValCap")
      [] a.k = "rat" /\ b.k = "big" -> a
      [] OTHER -> Unsupported("remainder")

\* floor(log2(x)) for x >= 1
RECURSIVE Log2(_)
Log2(x) == IF x < 2 THEN 0 ELSE 1 + Log2(x \div 2)

\* base^e for integers base # 0 and e >= 1: exact, or "big", or Infinity once
\* the result is above the largest double (2^1024)
RECURSIVE IntPow(_, _)
IntPow(base, e) ==
    IF e = 1 THEN IntV(base)
    ELSE The({IF r.k = "rat" /\ MulFits(r.n, base) THEN IntV(r.n * base) ELSE BigV(1) :
                 r \in {IntPow(base, e - 1)}})

PowMag(base, e) ==
    \* |base|^e for |base| >= 2, e >= 1
    IF e <= 31 /\ IntPow(Abs(base), e).k = "rat" THEN IntPow(Abs(base), e)
    ELSE IF MulFits(e, Log2(Abs(base)) + 1) /\ e * (Log2(Abs(base)) + 1) < 1024
         THEN BigV(1)
         ELSE IF ~MulFits(e, Log2(Abs(base))) \/ e * Log2(Abs(base)) >= 1024
              THEN InfV(1)
              ELSE Unsupported("power near the double range")

\* Math.pow(a, b)
PowV(a, b) ==
    CASE IsZero(b) -> IntV(1)
      [] a.k = "nan" \/ b.k = "nan" -> NaNV
      [] a.k = "rat" /\ a.n = a.d -> IntV(1)
      [] IsZero(a) -> IF SignOf(b) > 0 THEN IntV(0) ELSE InfV(1)
      [] a.k = "rat" /\ b.k = "rat" /\ b.d = 1 /\ a.d = 1 ->
            LET s == IF a.n < 0 /\ Abs(b.n) % 2 = 1 THEN -1 ELSE 1
            IN The({IF b.n > 0
                    THEN CASE m.k = "rat" -> IntV(s * m.n)
                           [] m.k = "big" -> BigV(s)
                           [] OTHER -> InfV(s)
                    ELSE CASE m.k = "rat" -> Rat(s, m.n)
                           [] OTHER -> Unsupported("reciprocal of a big power") :
                    m \in {IF Abs(a.n) = 1 THEN IntV(1) ELSE PowMag(a.n, Abs(b.n))}})
      [] a.k = "rat" /\ b.k = "rat" /\ b.d = 1 /\ b.n = 1 -> a
      [] a.k = "rat" /\ b.k = "rat" /\ b.d = 1 /\ b.n = -1 -> Rat(a.d, a.n)
      [] a.k = "rat" /\ b.k = "rat" /\ b.d = 1 /\ b.n = 2 /\ MulFits(a.n, a.n) ->
            Rat(a.n * a.n, a.d * a.d)
      [] SignOf(a) < 0 /\ b.k \in {"rat", "irr"} /\ ~IsInteger(b) -> NaNV
      [] OTHER -> Unsupported("power")

\* Math.sqrt(v) for v >= 0
SqrtV(v) ==
    CASE v.k = "rat" ->
            IF IsSquare(v.n) /\ IsSquare(v.d)
            THEN Rat(Isqrt(v.n), Isqrt(v.d))
            ELSE Irr(Isqrt(v.n \div v.d))
      [] v.k = "irr" -> Irr(Isqrt(v.n))
      [] v.k = "inf" -> v
      [] v.k = "nan" -> NaNV
      [] OTHER -> Unsupported("square root of a big value")

\* the product acc * k * (k + 1) * ... * n; once it leaves the model's integers
\* it is big whatever follows
RECURSIVE ProductTo(_, _, _)
ProductTo(k, n, acc) ==
    IF k > n THEN IntV(acc)
    ELSE IF MulFits(acc, k) THEN ProductTo(k + 1, n, acc * k) ELSE BigV(1)

\* UnaryOpNode.factorial: 1 for n <= 1, else n * factorial(n - 1), which is the
\* product 2 * ... * n
factorial(n) == IF n <= 1 THEN IntV(1) ELSE ProductTo(2, n, 1)

\* |v - t| < 10^-digits for an integer t and digits in {9, 10, 12}: a rational
\* of the model (denominator at most ValCap) that differs from t is at least
\* 10^-10 away from it
CloseTo(v, t, digits) ==
    /\ v.k = "rat"
    /\ MulFits(t, v.d)
    /\ LET m == Abs(v.n - t * v.d)
       IN m = 0 \/ (digits = 9 /\ m = 1 /\ v.d > 1000000000)

(***************************************************************************)
(* The expression tree (ast).                                              *)
(***************************************************************************)
NumberNode(value) == [type |-> "number", value |-> value]
ConcatNode(numbers) == [type |-> "concat", numbers |-> numbers]
UnaryOpNode(operator, operand) ==
    [type |-> "unary_op", operator |-> operator, operand |-> operand]
BinaryOpNode(left, operator, right) ==
    [type |-> "binary_op", left |-> left, operator |-> operator, right |-> right]
ExpressionNode(left, target) ==
    [type |-> "expression", left |-> left, target |-> target]

\* the square-root sign of the source, written in ASCII
SQRT == "sqrt"

\* Number.prototype.toString for the numbers a NumberNode holds
NumberToString(v) == IF v.k = "nan" THEN "NaN" ELSE ToString(v.n)

\* numbers.join('')
RECURSIVE Join(_)
Join(numbers) ==
    IF numbers = <<>> THEN ""
    ELSE ToString(Head(numbers)) \o Join(Tail(numbers))

\* parseInt(numbers.join('')) for decimal digits
RECURSIVE ParseJoined(_, _)
ParseJoined(numbers, acc) ==
    IF numbers = <<>> THEN acc
    ELSE ParseJoined(Tail(numbers), acc * 10 + Head(numbers))

\* toString() of the node classes that define it
RECURSIVE NodeToString(_)
NodeToString(node) ==
    CASE node.type = "number" -> NumberToString(node.value)
      [] node.type = "concat" -> Join(node.numbers)
      [] node.type = "unary_op" ->
            IF node.operator = "!"
            THEN NodeToString(node.operand) \o "!"
            ELSE node.operator \o NodeToString(node.operand)
      [] node.type = "binary_op" ->
            "(" \o NodeToString(node.left) \o " " \o node.operator \o " "
                \o NodeToString(node.right) \o ")"
      [] OTHER -> NodeToString(node.left) \o " = " \o ToString(node.target)

\* toString() of the node classes that define none: Object.prototype.toString
ObjectToString(node) == "[object Object]"

Ok(v) == [ok |-> TRUE, v |-> v, err |-> ""]
Throw(e) == [ok |-> FALSE, v |-> NaNV, err |-> e]

\* UnaryOpNode.evaluate without the test for values above 170
evaluateUnaryNoOverflowCheck(operator, r, val) ==
    IF ~r.ok THEN r
    ELSE CASE operator = "!" ->
                IF SignOf(val) < 0 \/ ~IsInteger(val)
                THEN Throw("Factorial only defined for non-negative integers")
                ELSE Ok(factorial(val.n))
           [] operator = SQRT ->
                IF SignOf(val) < 0
                THEN Throw("Square root of negative number")
                ELSE Ok(SqrtV(val))
           [] OTHER -> Ok(NegV(val))

\* UnaryOpNode.evaluate on the outcome r of its operand, of value val
evaluateUnary(operator, r, val) ==
    IF ~r.ok THEN r
    ELSE CASE operator = "!" ->
                IF SignOf(val) < 0 \/ ~IsInteger(val)
                THEN Throw("Factorial only defined for non-negative integers")
                ELSE IF val.k = "big" \/ val.n > 170
                     THEN Throw("Factorial overflow")
                     ELSE Ok(factorial(val.n))
           [] operator = SQRT ->
                IF SignOf(val) < 0
                THEN Throw("Square root of negative number")
                ELSE Ok(SqrtV(val))
           [] OTHER -> Ok(NegV(val))

\* BinaryOpNode.evaluate on the outcomes l and r of its operands, of values
\* leftVal and rightVal
evaluateBinary(operator, l, r, leftVal, rightVal) ==
    IF ~l.ok THEN l
    ELSE IF ~r.ok THEN r
    ELSE CASE operator = "+" -> Ok(AddV(leftVal, rightVal))
           [] operator = "-" -> Ok(SubV(leftVal, rightVal))
           [] operator = "*" -> Ok(MulV(leftVal, rightVal))
           [] operator = "/" ->
                IF IsZero(rightVal) THEN Throw("Division by zero")
                ELSE Ok(DivV(leftVal, rightVal))
           [] operator = "%" ->
                IF IsZero(rightVal) THEN Throw("Modulo by zero")
                ELSE Ok(ModV(leftVal, rightVal))
           [] OTHER -> Ok(PowV(leftVal, rightVal))

\* node.evaluate(): the value, or the error thrown.  Each operand is evaluated
\* once: its outcome is drawn from the one-element set that holds it.
RECURSIVE evaluate(_)
evaluate(node) ==
    CASE node.type = "number" -> Ok(node.value)
      [] node.type = "concat" -> Ok(IntV(ParseJoined(node.numbers, 0)))
      [] node.type = "unary_op" ->
            The({evaluateUnary(node.operator, r, r.v) : r \in {evaluate(node.operand)}})
      [] node.type = "binary_op" ->
            The({evaluateBinary(node.operator, l, r, l.v, r.v) :
                    l \in {evaluate(node.left)}, r \in {evaluate(node.right)}})
      [] OTHER -> evaluate(node.left)

\* ExpressionNode.isValid without the comparison with the target
isValidAnyValue(node) == evaluate(node).ok

\* ExpressionNode.isValid: a failed evaluation is caught and gives false
isValid(node) ==
    LET r == evaluate(node)
    IN r.ok /\ CloseTo(r.v, node.target, 10)
(***************************************************************************)
(* The solver.  One Solver instance, one call of solve(numbers, target):   *)
(* the generator it returns is created, resumed by its consumer (next()),  *)
(* runs until it yields a report, and is resumed again.  cancel() can be   *)
(* called whenever the generator is not running.  The clock advances at    *)
(* any time.                                                               *)
(***************************************************************************)
VARIABLES
    impl,            \* which solver module is used: "ordered" or "older"
    astModule,       \* which ast module is linked: "rendering" or "plain"
    numbers,         \* solve() argument
    target,          \* solve() argument
    config,          \* Solver.config
    cache,           \* Solver.cache: key -> number
    startTime,       \* Solver.startTime
    attempts,        \* Solver.attempts
    solutions,       \* Solver.solutions
    cancelled,       \* Solver.cancelled
    lastReportTime,  \* Solver.lastReportTime
    now,             \* Date.now()
    pc,              \* the generator: "created", "running", "suspended", "done"
    solveAt,         \* where solve() stands: "start", "loop", "complete", "returned"
    path,            \* index of solve()'s loop over the initial paths
    stack,           \* the frames of the recursive search, innermost last
    events,          \* the reports yielded so far
    result,          \* the value solve() returned, or NoResult
    cancelMark,      \* what had been emitted and counted when cancel() was called
    thrownIn,        \* the consumer has called generator.throw(error)
    secondBegun,     \* a second solve() on the same Solver has been begun
    cancelsSent,     \* 'cancel' messages the page has posted to the worker
    cancelsHandled,  \* 'cancel' messages the worker's listener has handled
    probe,           \* one call of a function of the library, outside a search
    page             \* the Playground page and its worker, seen from the page

vars == <<impl, astModule, numbers, target, config, cache, startTime, attempts,
          solutions, cancelled, lastReportTime, now, pc, solveAt, path, stack,
          events, result, cancelMark, thrownIn, secondBegun, cancelsSent,
          cancelsHandled, probe, page>>

inputs == <<impl, astModule, numbers, target, config>>

mailbox == <<cancelsSent, cancelsHandled>>

\* bounds of the model
Epoch == 1000        \* Date.now() when the generator is created
MaxTick == 2         \* the clock runs from Epoch to Epoch + MaxTick
MaxCancels == 1      \* the page posts at most this many 'cancel' messages

\* constants of the program
MaxSolutions == 10       \* the cap on the solutions list
MaxConcat == 4           \* the longest concatenation
MinConcat == 2           \* the shortest concatenation
CacheLimit == 100000     \* AttemptCache: size above which set() clears
OldCacheLimit == 10000   \* AttemptionCache: size above which set() clears
FactorialCeiling == 15   \* the search applies no factorial above this value
OldMaxDepth == 6         \* buildComplexExpressions: const maxDepth

NoExpr == [type |-> "none"]
NoResult == [found |-> FALSE, attempts |-> -1, expression |-> NoExpr]
NoProbe == [fn |-> "none"]
NoPage == [mounted |-> FALSE]
NoMark == [events |-> -1, attempts |-> -1, solutions |-> -1]

UnaryOperators == <<"!", SQRT, "-">>
BinaryOperators == <<"+", "-", "*", "/", "%", "^">>

\* a different loop, which C16 tells from the code: it does not look at the
\* enable flags of the unary operators
UnaryEnabledAlways(op) == TRUE

\* the enable flag of an operator family
UnaryEnabled(op) ==
    CASE op = "!" -> config.enableFactorial
      [] op = SQRT -> config.enableSquareRoot
      [] OTHER -> config.enableNegation

BinaryEnabled(op) ==
    CASE op = "+" -> config.enableAddition
      [] op = "-" -> config.enableSubtraction
      [] op = "*" -> config.enableMultiplication
      [] op = "/" -> config.enableDivision
      [] op = "%" -> config.enableModulo
      [] OTHER -> config.enablePower

\* node.toString() as the linked ast module answers it
toString(node) ==
    IF astModule = "rendering" THEN NodeToString(node) ELSE ObjectToString(node)

\* AttemptCache.set
CacheSet(c, key, value, limit) ==
    LET kept == IF Cardinality(DOMAIN c) > limit THEN <<>> ELSE c
    IN [k \in (DOMAIN kept) \cup {key} |-> IF k = key THEN value ELSE kept[k]]

EmptyCache == [k \in {} |-> NaNV]

\* Solver.evaluateWithCache on cache c, for the key of the node and the outcome r
\* of node.evaluate(): the value or the throw, and the cache after
Cached(c, key, r, limit) ==
    IF key \in DOMAIN c
    THEN [ok |-> TRUE, v |-> c[key], cache |-> c]
    ELSE IF ~r.ok THEN [ok |-> FALSE, v |-> NaNV, cache |-> c]
    ELSE IF ~IsFinite(r.v) THEN [ok |-> FALSE, v |-> NaNV, cache |-> c]
    ELSE [ok |-> TRUE, v |-> r.v, cache |-> CacheSet(c, key, r.v, limit)]

evaluateWithCacheOn(c, node, limit) ==
    The({Cached(c, key, r, limit) : key \in {toString(node)}, r \in {evaluate(node)}})

evaluateWithCache(c, node) == evaluateWithCacheOn(c, node, CacheLimit)

\* the cached value r against the target, within 10^-digits
Meets(r, digits) == [is |-> r.ok /\ CloseTo(r.v, target, digits), cache |-> r.cache]

\* Solver.checkSolution on cache c
checkSolution(c, node) == The({Meets(r, 9) : r \in {evaluateWithCache(c, node)}})

\* Solver.getFactorialDepth
RECURSIVE getFactorialDepth(_)
getFactorialDepth(node) ==
    IF node.type = "unary_op" /\ node.operator = "!"
    THEN 1 + getFactorialDepth(node.operand)
    ELSE 0

\* value > FactorialCeiling
AboveCeiling(v) ==
    CASE v.k = "rat" -> v.n > FactorialCeiling * v.d
      [] v.k = "irr" -> v.n >= FactorialCeiling
      [] OTHER -> v.n > 0

\* the applicability checks before a unary operator is applied to a node of
\* (cached) value v: TRUE when the operator is applied
UnaryApplies(op, node, v) ==
    CASE op = "!" ->
            /\ ~(\/ getFactorialDepth(node) >= config.maxFactorialDepth
                 \/ SignOf(v) < 0
                 \/ ~IsInteger(v)
                 \/ AboveCeiling(v))
            /\ ~(CloseTo(v, 2, 10) \/ CloseTo(v, 1, 10))
      [] op = SQRT -> ~(SignOf(v) < 0) /\ ~CloseTo(v, 1, 10)
      [] OTHER -> ~(node.type = "unary_op" /\ node.operator = "-")

Min(a, b) == IF a <= b THEN a ELSE b

\* the first len elements of a sequence, and the rest
Take(seq, len) == SubSeq(seq, 1, len)
Drop(seq, len) == SubSeq(seq, len + 1, Len(seq))

\* the smaller of two fractions <<numerator, denominator>>
MinFrac(x, y) == IF x[1] * y[2] <= y[1] * x[2] THEN x ELSE y

\* a different calculateProgress, which C23 tells from the code: the share of
\* the attempts alone
calculateProgressByAttempts(att, elapsed) == <<att, config.maxAttempts>>

\* Solver.calculateProgress as the fraction <<numerator, denominator>>
calculateProgress(att, elapsed) ==
    IF config.maxAttempts <= 0
    THEN MinFrac(<<elapsed, config.timeout>>, <<1, 1>>)
    ELSE MinFrac(MinFrac(<<att, config.maxAttempts>>, <<elapsed, config.timeout>>),
                 <<1, 1>>)

Report(type, att, expr, progress, duration) ==
    [type |-> type, attempts |-> att, currentExpression |-> expr,
     progress |-> progress, duration |-> duration]

\* Solver.createProgressReport
createProgressReport(att) ==
    Report("progress", att, NoExpr, calculateProgress(att, now - startTime),
           now - startTime)

(***************************************************************************)
(* The ordered search: solve and findCombinationsRecursive.                *)
(***************************************************************************)
Frame(ast, remaining, depth) ==
    [currentAst |-> ast, remainingNumbers |-> remaining, depth |-> depth,
     at |-> "entry", u |-> 1, r |-> 1, f |-> 1, b |-> 1, finalRhsNodes |-> <<>>]

Top == stack[Len(stack)]
Pop == SubSeq(stack, 1, Len(stack) - 1)
SetTop(fr) == [stack EXCEPT ![Len(stack)] = fr]

\* leaves with concatenations of any length from 2
LeavesOfAnyLength(nums) ==
    <<[node |-> NumberNode(IntV(nums[1])), numbersConsumed |-> 1]>>
    \o (IF config.enableConcatenation /\ Len(nums) >= MinConcat
        THEN [i \in 1..(Len(nums) - MinConcat + 1) |->
                 [node |-> ConcatNode(Take(nums, i + MinConcat - 1)),
                  numbersConsumed |-> i + MinConcat - 1]]
        ELSE <<>>)

\* the leaves a search can start from or combine with: the next number, or the
\* concatenation of the next 2 to 4 numbers
Leaves(nums) ==
    <<[node |-> NumberNode(IntV(nums[1])), numbersConsumed |-> 1]>>
    \o (IF config.enableConcatenation /\ Len(nums) >= MinConcat
        THEN [i \in 1..(Min(MaxConcat, Len(nums)) - MinConcat + 1) |->
                 [node |-> ConcatNode(Take(nums, i + MinConcat - 1)),
                  numbersConsumed |-> i + MinConcat - 1]]
        ELSE <<>>)

\* the loop-head check of the recursive search that ends the whole step
CapReached ==
    /\ Len(solutions) >= MaxSolutions
    /\ config.maxAttempts > 0
    /\ config.maxAttempts <= attempts

\* solve()'s check before each initial path
SolveBreak ==
    \/ cancelled
    \/ (Len(solutions) >= MaxSolutions /\ config.maxAttempts > attempts)
    \/ now - startTime >= config.timeout

\* a different reset(), which C21 tells from the code: the report clock starts
\* at the present time, so the first step reports no progress
ResetReportClockNow ==
    /\ cache' = EmptyCache
    /\ attempts' = 0
    /\ solutions' = <<>>
    /\ cancelled' = FALSE
    /\ lastReportTime' = now

\* Solver.reset
Reset ==
    /\ cache' = EmptyCache
    /\ attempts' = 0
    /\ solutions' = <<>>
    /\ cancelled' = FALSE
    /\ lastReportTime' = 0

\* a step of the older search: the GeneratorState of generateRecursive or of
\* buildComplexExpressions, with the position inside the step.  Positions of the
\* digit list count from 1.
GeneratorState(usedIndices, currentExpr, depth, at) ==
    [usedIndices |-> usedIndices, currentExpr |-> currentExpr, depth |-> depth,
     at |-> at, from |-> at, u |-> 1, b |-> 1, i |-> 1, len |-> MinConcat, start |-> 1,
     node |-> NoExpr, used |-> {}]

\* the first next(): solve() runs to its loop, or to the report for an empty list;
\* the older solve() calls generateRecursive
Begin ==
    /\ pc = "created"
    /\ Reset
    /\ startTime' = now
    /\ IF impl = "ordered" /\ Len(numbers) = 0
       THEN /\ events' = Append(events, Report("complete", 0, NoExpr, <<1, 1>>, 0))
            /\ pc' = "suspended"
            /\ solveAt' = "empty"
       ELSE /\ events' = events
            /\ pc' = "running"
            /\ solveAt' = "loop"
    /\ stack' = IF impl = "older" THEN <<GeneratorState({}, NoExpr, 0, "generate")>>
                ELSE stack
    /\ path' = 1
    /\ UNCHANGED <<inputs, mailbox, probe, page, thrownIn, secondBegun, now, result, cancelMark>>

\* a different solve(), which C5 tells from the code: its complete report carries
\* the progress computed from the attempts and the elapsed time, not 1
SolveLoopComputedProgress ==
    /\ pc = "running"
    /\ stack = <<>>
    /\ solveAt \in {"loop", "caught"}
    /\ IF impl = "ordered" /\ solveAt = "loop" /\ path <= Len(Leaves(numbers))
          /\ ~SolveBreak
       THEN /\ stack' = <<Frame(Leaves(numbers)[path].node,
                                Drop(numbers, Leaves(numbers)[path].numbersConsumed), 0)>>
            /\ path' = path + 1
            /\ UNCHANGED <<events, pc, solveAt>>
       ELSE /\ events' = Append(events,
                  Report("complete", attempts, NoExpr,
                         calculateProgress(attempts, now - startTime), now - startTime))
            /\ pc' = "suspended"
            /\ solveAt' = "complete"
            /\ UNCHANGED <<stack, path>>
    /\ UNCHANGED <<inputs, mailbox, probe, page, thrownIn, secondBegun, cache, startTime, attempts, solutions, cancelled,
                   lastReportTime, now, result, cancelMark>>

\* a different solve(), which C6 tells from the code: it returns the last
\* solution found, not the first
ReturnLastSolution ==
    /\ pc = "suspended"
    /\ solveAt \in {"complete", "empty"}
    /\ result' = [found |-> Len(solutions) > 0, attempts |-> attempts,
                  expression |-> IF Len(solutions) > 0 THEN solutions[Len(solutions)]
                                 ELSE ExpressionNode(NumberNode(IntV(0)), target)]
    /\ pc' = "done"
    /\ solveAt' = "returned"
    /\ UNCHANGED <<inputs, mailbox, probe, page, thrownIn, secondBegun, cache, startTime, attempts, solutions, cancelled,
                   lastReportTime, now, path, stack, events, cancelMark>>

\* a different solve(), which C7 tells from the code: after its complete report
\* it never returns
ReturnNever ==
    /\ pc = "suspended"
    /\ solveAt \in {"complete", "empty"}
    /\ UNCHANGED vars

\* solve(): one turn of the loop over the initial paths, or the complete report;
\* in the older solve(), the complete report once generateExpressions is over
SolveLoop ==
    /\ pc = "running"
    /\ stack = <<>>
    /\ solveAt \in {"loop", "caught"}
    /\ IF impl = "ordered" /\ solveAt = "loop" /\ path <= Len(Leaves(numbers))
          /\ ~SolveBreak
       THEN /\ stack' = <<Frame(Leaves(numbers)[path].node,
                                Drop(numbers, Leaves(numbers)[path].numbersConsumed), 0)>>
            /\ path' = path + 1
            /\ UNCHANGED <<events, pc, solveAt>>
       ELSE /\ events' = Append(events, Report("complete", attempts, NoExpr, <<1, 1>>,
                                               now - startTime))
            /\ pc' = "suspended"
            /\ solveAt' = "complete"
            /\ UNCHANGED <<stack, path>>
    /\ UNCHANGED <<inputs, mailbox, probe, page, thrownIn, secondBegun, cache, startTime, attempts, solutions, cancelled,
                   lastReportTime, now, result, cancelMark>>

\* next() after the complete report: solve() returns its result
Return ==
    /\ pc = "suspended"
    /\ solveAt \in {"complete", "empty"}
    /\ result' = IF solveAt = "empty"
                 THEN [found |-> FALSE, attempts |-> 0,
                       expression |-> ExpressionNode(NumberNode(IntV(0)), target)]
                 ELSE [found |-> Len(solutions) > 0, attempts |-> attempts,
                       expression |-> IF Len(solutions) > 0 THEN solutions[1]
                                      ELSE ExpressionNode(
                                             NumberNode(IF impl = "ordered" THEN NaNV
                                                        ELSE IntV(0)), target)]
    /\ pc' = "done"
    /\ solveAt' = "returned"
    /\ UNCHANGED <<inputs, mailbox, probe, page, thrownIn, secondBegun, cache, startTime, attempts, solutions, cancelled,
                   lastReportTime, now, path, stack, events, cancelMark>>

\* a base case that goes on to the loop over the unary operators when its
\* expression is no new solution
BaseCaseThenUnary(fr, att, cs, solution) ==
    /\ cache' = cs.cache
    /\ IF cs.is /\ \A i \in 1..Len(solutions) :
                      toString(solutions[i]) # toString(solution)
       THEN /\ solutions' = Append(solutions, solution)
            /\ events' = Append(events,
                  Report("solution", att, solution, calculateProgress(att, 0),
                         now - startTime))
            /\ stack' = SetTop([fr EXCEPT !.at = "afterSolution"])
            /\ pc' = "suspended"
       ELSE /\ stack' = SetTop([fr EXCEPT !.at = "unary", !.u = 1])
            /\ pc' = "running"
            /\ UNCHANGED <<solutions, events>>

\* findCombinationsRecursive from its base case on, for the innermost frame fr
\* and attempts counter att: the base case tests the expression and reports a new
\* solution, any other step goes on to its loops
BaseCase(fr, att, cs, solution) ==
    /\ cache' = cs.cache
    /\ IF cs.is /\ \A i \in 1..Len(solutions) :
                      toString(solutions[i]) # toString(solution)
       THEN /\ solutions' = Append(solutions, solution)
            /\ events' = Append(events,
                  Report("solution", att, solution, calculateProgress(att, 0),
                         now - startTime))
            /\ stack' = SetTop([fr EXCEPT !.at = "afterSolution"])
            /\ pc' = "suspended"
       ELSE /\ stack' = Pop
            /\ pc' = "running"
            /\ UNCHANGED <<solutions, events>>

Body(fr, att) ==
    IF Len(fr.remainingNumbers) = 0
    THEN \E cs \in {checkSolution(cache, fr.currentAst)} :
            BaseCase(fr, att, cs, ExpressionNode(fr.currentAst, target))
    ELSE /\ stack' = SetTop([fr EXCEPT !.at = "unary", !.u = 1])
         /\ pc' = "running"
         /\ UNCHANGED <<cache, solutions, events>>

\* a throw of CANCELLED out of the innermost frame: the catch around the call in
\* the calling frame swallows it; out of the first frame, solve() catches it
ThrowCancelled ==
    /\ stack' = Pop
    /\ solveAt' = IF Len(stack) = 1 THEN "caught" ELSE solveAt

\* the entry of findCombinationsRecursive without the test of the depth
EnterAtAnyDepth ==
    /\ impl = "ordered"
    /\ pc = "running"
    /\ stack # <<>>
    /\ Top.at = "entry"
    /\ IF cancelled
       THEN /\ ThrowCancelled
            /\ UNCHANGED <<attempts, cache, solutions, events, pc>>
       ELSE /\ solveAt' = solveAt
            /\ IF now - startTime >= config.timeout
               THEN /\ stack' = Pop
                    /\ UNCHANGED <<attempts, cache, solutions, events, pc>>
               ELSE /\ attempts' = attempts + 1
                    /\ IF attempts' >= config.maxAttempts /\ config.maxAttempts > 0
                       THEN /\ stack' = Pop
                            /\ UNCHANGED <<cache, solutions, events, pc>>
                       ELSE IF now - lastReportTime >= config.reportInterval
                            THEN /\ events' = Append(events, createProgressReport(attempts'))
                                 /\ stack' = SetTop([Top EXCEPT !.at = "afterProgress"])
                                 /\ pc' = "suspended"
                                 /\ UNCHANGED <<cache, solutions>>
                            ELSE Body(Top, attempts')
    /\ UNCHANGED <<inputs, mailbox, probe, page, thrownIn, secondBegun, startTime, cancelled, lastReportTime, now, path, result,
                   cancelMark>>

\* the entry of findCombinationsRecursive up to the progress report
Enter ==
    /\ impl = "ordered"
    /\ pc = "running"
    /\ stack # <<>>
    /\ Top.at = "entry"
    /\ IF cancelled
       THEN /\ ThrowCancelled
            /\ UNCHANGED <<attempts, cache, solutions, events, pc>>
       ELSE /\ solveAt' = solveAt
            /\ IF \/ now - startTime >= config.timeout
                  \/ Top.depth >= config.maxDepth
               THEN /\ stack' = Pop
                    /\ UNCHANGED <<attempts, cache, solutions, events, pc>>
               ELSE /\ attempts' = attempts + 1
                    /\ IF attempts' >= config.maxAttempts /\ config.maxAttempts > 0
                       THEN /\ stack' = Pop
                            /\ UNCHANGED <<cache, solutions, events, pc>>
                       ELSE IF now - lastReportTime >= config.reportInterval
                            THEN /\ events' = Append(events, createProgressReport(attempts'))
                                 /\ stack' = SetTop([Top EXCEPT !.at = "afterProgress"])
                                 /\ pc' = "suspended"
                                 /\ UNCHANGED <<cache, solutions>>
                            ELSE Body(Top, attempts')
    /\ UNCHANGED <<inputs, mailbox, probe, page, thrownIn, secondBegun, startTime, cancelled, lastReportTime, now, path, result,
                   cancelMark>>

\* a different step, which C22 tells from the code: resumed after its progress
\* report it does not note the time of the report
ResumeProgressClockKept ==
    /\ impl = "ordered"
    /\ pc = "suspended"
    /\ stack # <<>>
    /\ Top.at = "afterProgress"
    /\ lastReportTime' = lastReportTime
    /\ Body(Top, attempts)
    /\ UNCHANGED <<inputs, mailbox, probe, page, thrownIn, secondBegun, startTime, attempts, cancelled, now,
                   solveAt, path, result, cancelMark>>

\* next() after a progress report: the step goes on
ResumeProgress ==
    /\ impl = "ordered"
    /\ pc = "suspended"
    /\ stack # <<>>
    /\ Top.at = "afterProgress"
    /\ lastReportTime' = now
    /\ Body(Top, attempts)
    /\ UNCHANGED <<inputs, mailbox, probe, page, thrownIn, secondBegun, startTime, attempts, cancelled, now, solveAt, path, result,
                   cancelMark>>

\* next() after a solution report: the step returns
ResumeSolution ==
    /\ impl = "ordered"
    /\ pc = "suspended"
    /\ stack # <<>>
    /\ Top.at = "afterSolution"
    /\ stack' = Pop
    /\ pc' = "running"
    /\ UNCHANGED <<inputs, mailbox, probe, page, thrownIn, secondBegun, cache, startTime, attempts, solutions, cancelled,
                   lastReportTime, now, solveAt, path, events, result, cancelMark>>
\* a different Option 1 loop, which C12 tells from the code: it has no catch, an
\* evaluation error in the applicability checks ends the whole search
ApplyUnaryUncaught(op, next, ev) ==
    /\ cache' = ev.cache
    /\ stack' = IF ~ev.ok THEN <<>>
                ELSE IF UnaryApplies(op, Top.currentAst, ev.v)
                THEN Append(SetTop(next),
                            Frame(UnaryOpNode(op, Top.currentAst),
                                  Top.remainingNumbers, Top.depth + 1))
                ELSE SetTop(next)

\* the applicability checks on the cached value ev of the current expression,
\* and the search one level deeper when the operator applies
ApplyUnary(op, next, ev) ==
    /\ cache' = ev.cache
    /\ stack' = IF ev.ok /\ UnaryApplies(op, Top.currentAst, ev.v)
                THEN Append(SetTop(next),
                            Frame(UnaryOpNode(op, Top.currentAst),
                                  Top.remainingNumbers, Top.depth + 1))
                ELSE SetTop(next)

\* one turn of the loop over the unary operators (Option 1): the operator is
\* skipped, or applied to the current expression and searched one level deeper
UnaryStep ==
    /\ impl = "ordered"
    /\ pc = "running"
    /\ stack # <<>>
    /\ Top.at = "unary"
    /\ IF Top.u > Len(UnaryOperators)
       THEN /\ stack' = SetTop([Top EXCEPT !.at = "rhs", !.r = 1])
            /\ cache' = cache
       ELSE LET op == UnaryOperators[Top.u]
                next == [Top EXCEPT !.u = Top.u + 1]
            IN IF ~UnaryEnabled(op)
               THEN /\ stack' = SetTop(next)
                    /\ cache' = cache
               ELSE IF CapReached
               THEN /\ stack' = Pop
                    /\ cache' = cache
               ELSE \E ev \in {evaluateWithCache(cache, Top.currentAst)} :
                       ApplyUnary(op, next, ev)
    /\ UNCHANGED <<inputs, mailbox, probe, page, thrownIn, secondBegun, startTime, attempts, solutions, cancelled, lastReportTime,
                   now, pc, solveAt, path, events, result, cancelMark>>

\* the right-hand sides built from one leaf: the leaf, then the leaf under each
\* enabled unary operator that applies to it; with the cache after the checks
RECURSIVE FinalRhs(_, _, _, _)
FinalRhsWith(ev, op, base, i, acc) ==
    FinalRhs(ev.cache, base, i + 1,
             IF ev.ok /\ UnaryApplies(op, base, ev.v)
             THEN Append(acc, UnaryOpNode(op, base)) ELSE acc)

FinalRhs(c, base, i, acc) ==
    IF i > Len(UnaryOperators) THEN [nodes |-> acc, cache |-> c]
    ELSE IF ~UnaryEnabled(UnaryOperators[i]) THEN FinalRhs(c, base, i + 1, acc)
    ELSE The({FinalRhsWith(ev, UnaryOperators[i], base, i, acc) :
                 ev \in {evaluateWithCache(c, base)}})

RhsBuilt(fin) ==
    /\ stack' = SetTop([Top EXCEPT !.at = "final", !.f = 1,
                                   !.finalRhsNodes = fin.nodes])
    /\ cache' = fin.cache

\* one turn of the loop over the right-hand leaves (Option 2)
RhsStep ==
    /\ impl = "ordered"
    /\ pc = "running"
    /\ stack # <<>>
    /\ Top.at = "rhs"
    /\ IF Top.r > Len(Leaves(Top.remainingNumbers)) \/ CapReached
       THEN /\ stack' = Pop
            /\ cache' = cache
       ELSE \E fin \in {FinalRhs(cache, Leaves(Top.remainingNumbers)[Top.r].node, 1,
                                   <<Leaves(Top.remainingNumbers)[Top.r].node>>)} :
               RhsBuilt(fin)
    /\ UNCHANGED <<inputs, mailbox, probe, page, thrownIn, secondBegun, startTime, attempts, solutions, cancelled, lastReportTime,
                   now, pc, solveAt, path, events, result, cancelMark>>

\* one turn of the loop over the right-hand sides of one leaf
FinalStep ==
    /\ impl = "ordered"
    /\ pc = "running"
    /\ stack # <<>>
    /\ Top.at = "final"
    /\ IF Top.f > Len(Top.finalRhsNodes)
       THEN stack' = SetTop([Top EXCEPT !.at = "rhs", !.r = Top.r + 1])
       ELSE IF CapReached
            THEN stack' = Pop
            ELSE stack' = SetTop([Top EXCEPT !.at = "bin", !.b = 1])
    /\ UNCHANGED <<inputs, mailbox, probe, page, thrownIn, secondBegun, cache, startTime, attempts, solutions, cancelled,
                   lastReportTime, now, pc, solveAt, path, events, result, cancelMark>>

\* the checks before a binary operator combines lhs and rhs: go is TRUE when the
\* combination is searched, FALSE when it is skipped or a check has thrown
Skip(c) == [go |-> FALSE, cache |-> c]
Go(c) == [go |-> TRUE, cache |-> c]

DivisorCheck(rv) ==
    IF ~rv.ok \/ IsZero(rv.v) THEN Skip(rv.cache) ELSE Go(rv.cache)

ExponentCheck(lv, rv) ==
    IF ~rv.ok THEN Skip(rv.cache)
    ELSE IF IsZero(lv.v) /\ SignOf(rv.v) < 0 THEN Skip(rv.cache)
    ELSE IF SignOf(lv.v) < 0 /\ ~IsInteger(rv.v) THEN Skip(rv.cache)
    ELSE Go(rv.cache)

BaseCheck(lv, rhs) ==
    IF ~lv.ok \/ CloseTo(lv.v, 1, 12) THEN Skip(lv.cache)
    ELSE The({ExponentCheck(lv, rv) : rv \in {evaluateWithCache(lv.cache, rhs)}})

BinaryChecks(c, op, lhs, rhs) ==
    CASE op \in {"/", "%"} -> The({DivisorCheck(rv) : rv \in {evaluateWithCache(c, rhs)}})
      [] op = "^" -> The({BaseCheck(lv, rhs) : lv \in {evaluateWithCache(c, lhs)}})
      [] OTHER -> Go(c)

\* the combination searched at the depth of the step that builds it
CombineAtSameDepth(ck, op, rhs, consumed, next) ==
    /\ cache' = ck.cache
    /\ stack' = IF ck.go
                THEN Append(SetTop(next),
                            Frame(BinaryOpNode(Top.currentAst, op, rhs),
                                  Drop(Top.remainingNumbers, consumed), Top.depth))
                ELSE SetTop(next)

\* the search one level deeper when the checks ck let the combination through
Combine(ck, op, rhs, consumed, next) ==
    /\ cache' = ck.cache
    /\ stack' = IF ck.go
                THEN Append(SetTop(next),
                            Frame(BinaryOpNode(Top.currentAst, op, rhs),
                                  Drop(Top.remainingNumbers, consumed), Top.depth + 1))
                ELSE SetTop(next)

\* one turn of the loop over the binary operators: the operator is skipped, or
\* the combination is searched one level deeper
BinStep ==
    /\ impl = "ordered"
    /\ pc = "running"
    /\ stack # <<>>
    /\ Top.at = "bin"
    /\ IF Top.b > Len(BinaryOperators)
       THEN /\ stack' = SetTop([Top EXCEPT !.at = "final", !.f = Top.f + 1])
            /\ cache' = cache
       ELSE LET op == BinaryOperators[Top.b]
                rhs == Top.finalRhsNodes[Top.f]
                leaf == Leaves(Top.remainingNumbers)[Top.r]
                next == [Top EXCEPT !.b = Top.b + 1]
            IN IF ~BinaryEnabled(op)
               THEN /\ stack' = SetTop(next)
                    /\ cache' = cache
               ELSE IF CapReached
               THEN /\ stack' = Pop
                    /\ cache' = cache
               ELSE \E ck \in {BinaryChecks(cache, op, Top.currentAst, rhs)} :
                       Combine(ck, op, rhs, leaf.numbersConsumed, next)
    /\ UNCHANGED <<inputs, mailbox, probe, page, thrownIn, secondBegun, startTime, attempts, solutions, cancelled, lastReportTime,
                   now, pc, solveAt, path, events, result, cancelMark>>

(***************************************************************************)
(* The older search: generateRecursive and buildComplexExpressions.        *)
(***************************************************************************)
\* the older Solver.checkSolution on cache c
checkSolutionOlder(c, node) ==
    The({Meets(r, 10) : r \in {evaluateWithCacheOn(c, node, OldCacheLimit)}})

\* the older Solver.calculateProgress as a fraction; <<0, 0>> is NaN
calculateProgressOlder(att, elapsed) ==
    IF config.maxAttempts = 0
    THEN IF att = 0 THEN <<0, 0>> ELSE <<elapsed, config.timeout>>
    ELSE MinFrac(<<att, config.maxAttempts>>, <<elapsed, config.timeout>>)

\* the test of a new node in the older search, counted as attempt att: a node
\* that meets the target is pushed on the solutions and reported, any other is
\* built on one level deeper.  fr is the running step with its loop moved on.
Tested(fr, node, used, att, cs, solution) ==
       /\ cache' = cs.cache
       /\ IF cs.is
          THEN /\ solutions' = Append(solutions, solution)
               /\ events' = Append(events,
                     Report("solution", att, solution,
                            calculateProgressOlder(att, now - startTime),
                            now - startTime))
               /\ stack' = SetTop([fr EXCEPT !.at = "afterSolution", !.from = fr.at,
                                             !.node = node, !.used = used])
               /\ pc' = "suspended"
          ELSE /\ stack' = Append(SetTop(fr),
                                  GeneratorState(used, node, fr.depth + 1, "build"))
               /\ pc' = "running"
               /\ UNCHANGED <<solutions, events>>

TestNode(fr, node, used, att) ==
    \E cs \in {checkSolutionOlder(cache, node)} :
        Tested(fr, node, used, att, cs, ExpressionNode(node, target))

\* the entry of generateRecursive up to the progress report
generateRecursive ==
    /\ impl = "older"
    /\ pc = "running"
    /\ stack # <<>>
    /\ Top.at = "generate"
    /\ IF cancelled
       THEN /\ stack' = Pop
            /\ solveAt' = "caught"
            /\ UNCHANGED <<events, pc>>
       ELSE /\ solveAt' = solveAt
            /\ IF \/ attempts >= config.maxAttempts
                  \/ now - startTime >= config.timeout
               THEN /\ stack' = Pop
                    /\ UNCHANGED <<events, pc>>
               ELSE IF now - lastReportTime >= config.reportInterval
                    THEN /\ events' = Append(events,
                               Report("progress", attempts, NoExpr,
                                      calculateProgressOlder(attempts, now - startTime),
                                      now - startTime))
                         /\ stack' = SetTop([Top EXCEPT !.at = "afterProgress"])
                         /\ pc' = "suspended"
                    ELSE /\ stack' = SetTop([Top EXCEPT !.at = "numbers", !.i = 1])
                         /\ UNCHANGED <<events, pc>>
    /\ UNCHANGED <<inputs, mailbox, probe, page, thrownIn, secondBegun, cache, startTime, attempts, solutions, cancelled,
                   lastReportTime, now, path, result, cancelMark>>

\* next() after the progress report of generateRecursive
ResumeGenerate ==
    /\ impl = "older"
    /\ pc = "suspended"
    /\ stack # <<>>
    /\ Top.at = "afterProgress"
    /\ lastReportTime' = now
    /\ stack' = SetTop([Top EXCEPT !.at = "numbers", !.i = 1])
    /\ pc' = "running"
    /\ UNCHANGED <<inputs, mailbox, probe, page, thrownIn, secondBegun, cache, startTime, attempts, solutions, cancelled, now,
                   solveAt, path, events, result, cancelMark>>

\* generateRecursive: one turn of the loop over the single numbers
tryNumbers ==
    /\ impl = "older"
    /\ pc = "running"
    /\ stack # <<>>
    /\ Top.at = "numbers"
    /\ IF Top.i > Len(numbers)
       THEN /\ stack' = IF config.enableConcatenation
                        THEN SetTop([Top EXCEPT !.at = "concat", !.len = MinConcat,
                                                !.start = 1])
                        ELSE Pop
            /\ UNCHANGED <<cache, solutions, events, pc>>
       ELSE IF Top.i \in Top.usedIndices
       THEN /\ stack' = SetTop([Top EXCEPT !.i = Top.i + 1])
            /\ UNCHANGED <<cache, solutions, events, pc>>
       ELSE TestNode([Top EXCEPT !.i = Top.i + 1], NumberNode(IntV(numbers[Top.i])),
                     Top.usedIndices \cup {Top.i}, attempts)
    /\ UNCHANGED <<inputs, mailbox, probe, page, thrownIn, secondBegun, startTime, attempts, cancelled, lastReportTime, now,
                   solveAt, path, result, cancelMark>>

\* tryNumberConcatenation: one turn of the loops over the length and the start
\* of a run of 2 to 4 neighbouring positions
tryNumberConcatenation ==
    /\ impl = "older"
    /\ pc = "running"
    /\ stack # <<>>
    /\ Top.at = "concat"
    /\ IF Top.len > Min(MaxConcat, Len(numbers))
       THEN /\ stack' = Pop
            /\ UNCHANGED <<attempts, cache, solutions, events, pc>>
       ELSE IF Top.start > Len(numbers) - Top.len + 1
       THEN /\ stack' = SetTop([Top EXCEPT !.len = Top.len + 1, !.start = 1])
            /\ UNCHANGED <<attempts, cache, solutions, events, pc>>
       ELSE LET indices == Top.start .. (Top.start + Top.len - 1)
                next == [Top EXCEPT !.start = Top.start + 1]
            IN IF indices \cap Top.usedIndices # {}
               THEN /\ stack' = SetTop(next)
                    /\ UNCHANGED <<attempts, cache, solutions, events, pc>>
               ELSE /\ attempts' = attempts + 1
                    /\ TestNode(next,
                                ConcatNode(SubSeq(numbers, Top.start,
                                                  Top.start + Top.len - 1)),
                                Top.usedIndices \cup indices, attempts')
    /\ UNCHANGED <<inputs, mailbox, probe, page, thrownIn, secondBegun, startTime, cancelled, lastReportTime, now, solveAt, path,
                   result, cancelMark>>

\* the entry of buildComplexExpressions
buildComplexExpressions ==
    /\ impl = "older"
    /\ pc = "running"
    /\ stack # <<>>
    /\ Top.at = "build"
    /\ stack' = IF Top.depth >= OldMaxDepth THEN Pop
                ELSE SetTop([Top EXCEPT !.at = "unary", !.u = 1])
    /\ UNCHANGED <<inputs, mailbox, probe, page, thrownIn, secondBegun, cache, startTime, attempts, solutions, cancelled,
                   lastReportTime, now, pc, solveAt, path, events, result, cancelMark>>

\* tryUnaryOperations: one turn of the loop over the unary operators; after the
\* last one buildComplexExpressions goes on to the binary operators
tryUnaryOperations ==
    /\ impl = "older"
    /\ pc = "running"
    /\ stack # <<>>
    /\ Top.at = "unary"
    /\ IF Top.u > Len(UnaryOperators)
       THEN /\ stack' = SetTop([Top EXCEPT !.at = "binary", !.b = 1, !.i = 1])
            /\ UNCHANGED <<attempts, cache, solutions, events, pc>>
       ELSE LET op == UnaryOperators[Top.u]
                next == [Top EXCEPT !.u = Top.u + 1]
            IN IF \/ ~UnaryEnabled(op)
                  \/ /\ op = "!"
                     /\ getFactorialDepth(Top.currentExpr) >= config.maxFactorialDepth
               THEN /\ stack' = SetTop(next)
                    /\ UNCHANGED <<attempts, cache, solutions, events, pc>>
               ELSE /\ attempts' = attempts + 1
                    /\ TestNode(next, UnaryOpNode(op, Top.currentExpr),
                                Top.usedIndices, attempts')
    /\ UNCHANGED <<inputs, mailbox, probe, page, thrownIn, secondBegun, startTime, cancelled, lastReportTime, now, solveAt, path,
                   result, cancelMark>>

\* tryBinaryOperations: one turn of the loops over the binary operators and the
\* unused positions of the right operand
tryBinaryOperations ==
    /\ impl = "older"
    /\ pc = "running"
    /\ stack # <<>>
    /\ Top.at = "binary"
    /\ IF Top.b > Len(BinaryOperators)
       THEN /\ stack' = Pop
            /\ UNCHANGED <<attempts, cache, solutions, events, pc>>
       ELSE IF ~BinaryEnabled(BinaryOperators[Top.b]) \/ Top.i > Len(numbers)
       THEN /\ stack' = SetTop([Top EXCEPT !.b = Top.b + 1, !.i = 1])
            /\ UNCHANGED <<attempts, cache, solutions, events, pc>>
       ELSE IF Top.i \in Top.usedIndices
       THEN /\ stack' = SetTop([Top EXCEPT !.i = Top.i + 1])
            /\ UNCHANGED <<attempts, cache, solutions, events, pc>>
       ELSE /\ attempts' = attempts + 1
            /\ TestNode([Top EXCEPT !.i = Top.i + 1],
                        BinaryOpNode(Top.currentExpr, BinaryOperators[Top.b],
                                     NumberNode(IntV(numbers[Top.i]))),
                        Top.usedIndices \cup {Top.i}, attempts')
    /\ UNCHANGED <<inputs, mailbox, probe, page, thrownIn, secondBegun, startTime, cancelled, lastReportTime, now, solveAt, path,
                   result, cancelMark>>

\* next() after a solution report of the older search: with 10 solutions the
\* running function returns, with fewer the reported node is built on
ResumeOlder ==
    /\ impl = "older"
    /\ pc = "suspended"
    /\ stack # <<>>
    /\ Top.at = "afterSolution"
    /\ stack' = IF Len(solutions) >= MaxSolutions
                THEN IF Top.from = "unary"
                     THEN SetTop([Top EXCEPT !.at = "binary", !.b = 1, !.i = 1])
                     ELSE Pop
                ELSE Append(SetTop([Top EXCEPT !.at = Top.from]),
                            GeneratorState(Top.used, Top.node, Top.depth + 1, "build"))
    /\ pc' = "running"
    /\ UNCHANGED <<inputs, mailbox, probe, page, thrownIn, secondBegun, cache, startTime, attempts, solutions, cancelled,
                   lastReportTime, now, solveAt, path, events, result, cancelMark>>

\* Solver.cancel, called by the consumer while the generator is not running
Cancel ==
    /\ pc \in {"created", "suspended"}
    /\ ~cancelled
    /\ cancelled' = TRUE
    /\ cancelMark' = [events |-> Len(events), attempts |-> attempts,
                      solutions |-> Len(solutions)]
    /\ UNCHANGED <<inputs, mailbox, probe, page, thrownIn, secondBegun, cache, startTime, attempts, solutions, lastReportTime, now,
                   pc, solveAt, path, stack, events, result>>

\* the clock advances.  The model follows the clock only in the calls whose
\* timeout or report interval the modelled span of time can reach: in the others
\* a tick changes no decision of the search.
Tick ==
    /\ pc # "done"
    /\ now < Epoch + MaxTick
    /\ (config.timeout <= MaxTick \/ config.reportInterval <= MaxTick)
    /\ now' = now + 1
    /\ UNCHANGED <<inputs, mailbox, probe, page, thrownIn, secondBegun, cache, startTime, attempts, solutions, cancelled,
                   lastReportTime, pc, solveAt, path, stack, events, result, cancelMark>>
(***************************************************************************)
(* Construction.                                                           *)
(***************************************************************************)
\* new Solver(config): the given options over the defaults
Constructor(options) ==
    options @@
    [maxAttempts |-> 1000000, timeout |-> 30000, maxFactorialDepth |-> 2,
     enableConcatenation |-> TRUE, enableAddition |-> TRUE,
     enableSubtraction |-> TRUE, enableMultiplication |-> TRUE,
     enableDivision |-> TRUE, enablePower |-> TRUE, enableFactorial |-> TRUE,
     enableSquareRoot |-> TRUE, enableNegation |-> TRUE, enableModulo |-> TRUE,
     reportInterval |-> 100, maxDepth |-> 8]

\* the options that enable exactly the operator families in ops
Only(ops) ==
    [enableConcatenation |-> "concat" \in ops, enableAddition |-> "+" \in ops,
     enableSubtraction |-> "-" \in ops, enableMultiplication |-> "*" \in ops,
     enableDivision |-> "/" \in ops, enablePower |-> "^" \in ops,
     enableFactorial |-> "!" \in ops, enableSquareRoot |-> SQRT \in ops,
     enableNegation |-> "neg" \in ops, enableModulo |-> "%" \in ops]

AllFamilies == {"concat", "+", "-", "*", "/", "^", "!", SQRT, "neg", "%"}

Call(nums, tgt, options) == [numbers |-> nums, target |-> tgt, options |-> options]

\* the calls of solve() the model explores with the ordered search
OrderedCalls ==
    \* sums and concatenations of three digits, as in the tests
    {Call(<<1, 2, 3>>, t, Only({"concat", "+"}) @@ [maxDepth |-> d]) :
        t \in {6, 15, 24, 123, 7}, d \in {2, 3}}
    \cup {Call(<<1, 2, 3>>, 6, [maxAttempts |-> 100, timeout |-> 2, reportInterval |-> 1,
                                maxDepth |-> 3] @@ Only({"+", "-"}))}
    \* nothing enabled, or only concatenation
    \cup {Call(nums, t, Only(ops)) :
            nums \in {<<1, 2>>, <<1, 2, 3>>}, t \in {3, 12, 123, 1},
            ops \in {{}, {"concat"}}}
    \* more digits than levels
    \cup {Call(<<1, 2>>, 3, [maxDepth |-> 1] @@ Only({"+"})),
          Call(<<1, 2, 3>>, 6, [maxDepth |-> 2] @@ Only({"+"}))}
    \* five digits, only concatenation
    \cup {Call(<<1, 2, 3, 4, 5>>, 12345, Only({"concat"}))}
    \* no digits, one digit
    \cup {Call(<<>>, t, [maxAttempts |-> 10]) : t \in {0, 100}}
    \cup {Call(<<d>>, t, [maxAttempts |-> 10, timeout |-> 1000]) :
            d \in {1, 4}, t \in {1, 4, 24, 100}}
    \* a small attempt limit
    \cup {Call(<<1, 2>>, 3, [maxAttempts |-> m, maxDepth |-> 2]
                            @@ Only({"concat", "+", "neg"})) : m \in {0, 1, 2, 3}}
    \* every family enabled, two digits
    \cup {Call(nums, t, [maxDepth |-> 2, maxAttempts |-> m]) :
            nums \in {<<0, 0>>, <<4, 0>>}, t \in {0, 2}, m \in {20, 1000000}}
    \cup {Call(<<1, 4>>, t, [maxDepth |-> 3]) : t \in {5, 3}}
    \* a short timeout, a short report interval
    \cup {Call(<<1, 4>>, 5, [maxDepth |-> 2, reportInterval |-> r, timeout |-> to]
                            @@ Only({"+", "!"})) :
            r \in {1, 100}, to \in {1, 30000}}
    \* square root and factorial of the same operand
    \cup {Call(<<9, 1>>, t, [maxDepth |-> 4] @@ Only({"+", "!", SQRT})) :
            t \in {7, 10}}
    \* no depth at all; a report interval longer than the clock reading
    \cup {Call(<<1, 2>>, 3, [maxDepth |-> 0] @@ Only({"+"})),
          Call(<<1, 2>>, 3, [reportInterval |-> 5 * Epoch] @@ Only({"+"}))}
    \* a power above the largest double
    \cup {Call(<<2, 9, 1>>, 513, [maxDepth |-> 3] @@ Only({"^", "!", "+"}))}

\* new Solver(config) of the older solver
ConstructorOlder(options) ==
    options @@
    [maxAttempts |-> 1000000, timeout |-> 30000, maxFactorialDepth |-> 3,
     enableConcatenation |-> TRUE, enableAddition |-> TRUE,
     enableSubtraction |-> TRUE, enableMultiplication |-> TRUE,
     enableDivision |-> TRUE, enablePower |-> TRUE, enableFactorial |-> TRUE,
     enableSquareRoot |-> TRUE, enableNegation |-> TRUE, enableModulo |-> TRUE,
     reportInterval |-> 100]

\* the calls of solve() the model explores with the older search
OlderCalls ==
    \* sums of two and three digits, repeated digits
    {Call(nums, t, Only({"+"})) :
        nums \in {<<1, 1>>, <<1, 2>>, <<1, 2, 3>>}, t \in {1, 2, 3, 6, 100}}
    \* concatenation
    \cup {Call(<<1, 2, 3>>, t, Only({"concat", "+"})) : t \in {15, 24, 123}}
    \* no digits, one digit, a small attempt limit
    \cup {Call(<<>>, t, [maxAttempts |-> 10]) : t \in {0, 100}}
    \cup {Call(<<1>>, 100, [maxAttempts |-> m] @@ Only({"!", "neg"})) : m \in {0, 10}}
    \* many solutions
    \cup {Call(<<0, 0>>, 0, Only({"neg", "+"}))}
    \* a short timeout, a short report interval
    \cup {Call(<<1, 2>>, 3, [reportInterval |-> r, timeout |-> to] @@ Only({"+"})) :
            r \in {1, 100}, to \in {1, 30000}}
    \* square root and factorial
    \cup {Call(<<9, 1>>, 7, [maxFactorialDepth |-> 1] @@ Only({"+", "!", SQRT}))}
    \* a factorial under a negation, a negation under a factorial
    \cup {Call(<<4>>, -24, Only({"!", "neg"}))}
    \* a division by zero, a remainder by zero
    \cup {Call(<<4, 0>>, 4, Only({"/", "%"}))}
    \* a report interval longer than the clock reading
    \cup {Call(<<1, 2>>, 3, [reportInterval |-> 5 * Epoch] @@ Only({"+"}))}
    \* only concatenation, or nothing, enabled
    \cup {Call(nums, t, Only(ops)) :
            nums \in {<<1, 2>>, <<0, 1>>}, t \in {12, 1, 3}, ops \in {{}, {"concat"}}}
    \cup {Call(<<1, 2, 3>>, 123, Only({"concat"}))}

\* the fields of a Solver after its constructor, and the generator not begun
Constructed ==
    /\ cache = EmptyCache
    /\ startTime = 0
    /\ attempts = 0
    /\ solutions = <<>>
    /\ cancelled = FALSE
    /\ lastReportTime = 0
    /\ now = Epoch
    /\ pc = "created"
    /\ solveAt = "start"
    /\ path = 1
    /\ stack = <<>>
    /\ events = <<>>
    /\ result = NoResult
    /\ cancelMark = NoMark
    /\ thrownIn = FALSE
    /\ secondBegun = FALSE
    /\ cancelsSent = 0
    /\ cancelsHandled = 0

Init ==
    /\ impl \in {"ordered", "older"}
    /\ astModule \in {"rendering", "plain"}
    /\ \E call \in (IF impl = "ordered" THEN OrderedCalls ELSE OlderCalls) :
          /\ numbers = call.numbers
          /\ target = call.target
          /\ config = IF impl = "ordered" THEN Constructor(call.options)
                      ELSE ConstructorOlder(call.options)
    /\ Constructed
    /\ probe = NoProbe
    /\ page = NoPage

Next ==
    \/ Begin
    \/ SolveLoop
    \/ Enter
    \/ ResumeProgress
    \/ ResumeSolution
    \/ UnaryStep
    \/ RhsStep
    \/ FinalStep
    \/ BinStep
    \/ generateRecursive
    \/ ResumeGenerate
    \/ tryNumbers
    \/ tryNumberConcatenation
    \/ buildComplexExpressions
    \/ tryUnaryOperations
    \/ tryBinaryOperations
    \/ ResumeOlder
    \/ Return
    \/ Cancel
    \/ Tick

Spec == Init /\ [][Next]_vars

\* next() as the consumer calls it: solve()'s own loop over the generator calls
\* it again after every report until the generator is done
Resume ==
    \/ Begin
    \/ ResumeProgress
    \/ ResumeSolution
    \/ ResumeGenerate
    \/ ResumeOlder
    \/ Return

\* the generator's code between two reports, which runs to its next yield
Run ==
    \/ SolveLoop
    \/ Enter
    \/ UnaryStep
    \/ RhsStep
    \/ FinalStep
    \/ BinStep
    \/ generateRecursive
    \/ tryNumbers
    \/ tryNumberConcatenation
    \/ buildComplexExpressions
    \/ tryUnaryOperations
    \/ tryBinaryOperations

\* the search under a consumer that drains the generator
FairSpec == Spec /\ WF_vars(Resume) /\ WF_vars(Run)

(***************************************************************************)
(* An error that is no evaluation error and no cancellation.  The consumer *)
(* raises one inside the suspended step with generator.throw(error): the   *)
(* yield the step is suspended at throws it.                               *)
(***************************************************************************)
\* the error leaves solve(): no try block holds it, or the catch of solve()
\* rethrows it; the generator is done and has returned nothing
ThrownOut ==
    /\ pc' = "done"
    /\ solveAt' = "thrown"
    /\ stack' = <<>>

\* the yield of a step of the ordered search throws: out of the first step the
\* error reaches the catch of solve(); out of a deeper step it reaches the catch
\* around the call in the calling step, which goes on with its loop
ThrowAtYieldOrdered ==
    IF Len(stack) = 1 THEN ThrownOut
    ELSE /\ stack' = Pop
         /\ pc' = "running"
         /\ solveAt' = solveAt

\* the yield of a step of the older search throws: generateRecursive has no try
\* block; the loops of tryUnaryOperations, tryBinaryOperations and
\* tryNumberConcatenation catch the error and go on with their next turn
ThrowAtYieldOlder ==
    IF Top.at = "afterProgress" \/ Top.from = "numbers" THEN ThrownOut
    ELSE /\ stack' = SetTop([Top EXCEPT !.at = Top.from])
         /\ pc' = "running"
         /\ solveAt' = solveAt

\* generator.throw(error), called by the consumer while the generator is not
\* running
GeneratorThrow ==
    /\ pc \in {"created", "suspended"}
    /\ ~thrownIn
    /\ thrownIn' = TRUE
    /\ IF stack = <<>> THEN ThrownOut
       ELSE IF impl = "ordered" THEN ThrowAtYieldOrdered
       ELSE ThrowAtYieldOlder
    /\ UNCHANGED <<inputs, mailbox, probe, page, secondBegun, cache, startTime, attempts, solutions,
                   cancelled, lastReportTime, now, path, events, result, cancelMark>>

\* the search under a consumer that may throw an error into the generator
ThrowSpec == Init /\ [][Next \/ GeneratorThrow]_vars

(***************************************************************************)
(* A second call of solve() on the same Solver.  The second generator is   *)
(* advanced while the first is suspended: its first next() runs reset()    *)
(* and sets startTime on the fields the first search works on.  The second *)
(* call is solve([], t), which changes no field after that.                *)
(***************************************************************************)
SecondSolveBegin ==
    /\ pc = "suspended"
    /\ ~secondBegun
    /\ secondBegun' = TRUE
    /\ Reset
    /\ startTime' = now
    /\ UNCHANGED <<inputs, mailbox, probe, page, thrownIn, now, pc, solveAt, path, stack, events, result,
                   cancelMark>>

\* the search on a Solver that is asked for a second search meanwhile
SharedSpec == Init /\ [][Next \/ SecondSolveBegin]_vars

(***************************************************************************)
(* The worker (sum100.worker.ts).  Its listener handles one message at a   *)
(* time.  A 'solve' message runs handleSolve, which drains the generator   *)
(* of solving() in one go, without an await: a message posted meanwhile    *)
(* waits until handleSolve has returned.  The model starts with the        *)
(* 'solve' message being handled and the generator created.                *)
(***************************************************************************)
\* the searches a 'solve' message starts: the numbers and the target parsed
\* from its input, maxAttempts and timeout of the message, maxFactorialDepth 3,
\* every family enabled by default
WorkerCalls ==
    IF impl = "ordered"
    THEN {Call(nums, t, [maxAttempts |-> 10, timeout |-> to, maxFactorialDepth |-> 3]) :
            nums \in {<<>>, <<1>>, <<1, 4>>}, t \in {1, 5}, to \in {2, 1000}}
    ELSE {Call(nums, t, [maxAttempts |-> 10, timeout |-> to, maxFactorialDepth |-> 3]) :
            nums \in {<<>>, <<1>>}, t \in {1, 5}, to \in {2, 1000}}

\* the response handleSolve posts for a report of the generator
Forwarded(report) ==
    [type |-> "solution", expression |-> report.currentExpression,
     attempts |-> report.attempts, duration |-> report.duration,
     found |-> report.currentExpression # NoExpr]

\* the response that ends handleSolve, and the response of handleCancel
CompleteResponse ==
    [type |-> "complete", expression |-> NoExpr, attempts |-> 0, duration |-> 0,
     found |-> FALSE]

\* the response of handleSolve when the generator throws
ErrorResponse == [CompleteResponse EXCEPT !.type = "error"]

\* the responses the worker has posted: one for each report of the generator,
\* 'complete' when the generator is done ('error' when it threw), one for each 'cancel' message handled
RECURSIVE Repeat(_, _)
Repeat(x, n) == IF n = 0 THEN <<>> ELSE <<x>> \o Repeat(x, n - 1)

Responses ==
    [i \in 1..Len(events) |-> Forwarded(events[i])]
    \o (IF pc # "done" THEN <<>>
        ELSE IF solveAt = "thrown" THEN <<ErrorResponse>> ELSE <<CompleteResponse>>)
    \o Repeat(CompleteResponse, cancelsHandled)

\* the page posts a 'cancel' message (handleStop)
SendCancel ==
    /\ cancelsSent < MaxCancels
    /\ cancelsSent' = cancelsSent + 1
    /\ UNCHANGED <<inputs, probe, page, cancelsHandled, thrownIn, secondBegun, cache, startTime,
                   attempts, solutions, cancelled, lastReportTime, now, pc, solveAt,
                   path, stack, events, result, cancelMark>>

\* the listener takes a 'cancel' message once handleSolve has returned:
\* currentSolver is null, so no cancel() is called, and 'complete' is posted
HandleCancel ==
    /\ pc = "done"
    /\ cancelsHandled < cancelsSent
    /\ cancelsHandled' = cancelsHandled + 1
    /\ UNCHANGED <<inputs, probe, page, cancelsSent, thrownIn, secondBegun, cache, startTime,
                   attempts, solutions, cancelled, lastReportTime, now, pc, solveAt,
                   path, stack, events, result, cancelMark>>

WorkerInit ==
    /\ impl \in {"ordered", "older"}
    /\ astModule \in {"rendering", "plain"}
    /\ \E call \in WorkerCalls :
          /\ numbers = call.numbers
          /\ target = call.target
          /\ config = IF impl = "ordered" THEN Constructor(call.options)
                      ELSE ConstructorOlder(call.options)
    /\ Constructed
    /\ probe = NoProbe
    /\ page = NoPage

WorkerNext == Resume \/ Run \/ Tick \/ SendCancel \/ HandleCancel

\* the worker serving one 'solve' message
WorkerSpec == WorkerInit /\ [][WorkerNext]_vars

(***************************************************************************)
(* What the event stream and the solutions list are checked against.       *)
(***************************************************************************)
\* the positions of the event stream that hold an event of the given type
EventsOf(type) == {i \in 1..Len(events) : events[i].type = type}

\* node.evaluate() itself, without the memo cache, against the target
MeetsDirectly(r) == r.ok /\ CloseTo(r.v, target, 9)
TrueValueIsTarget(node) == MeetsDirectly(evaluate(node))

\* the digits at the leaves of an expression, read left to right
RECURSIVE LeafDigits(_)
LeafDigits(node) ==
    CASE node.type = "number" -> <<node.value.n>>
      [] node.type = "concat" -> node.numbers
      [] node.type = "unary_op" -> LeafDigits(node.operand)
      [] node.type = "binary_op" -> LeafDigits(node.left) \o LeafDigits(node.right)
      [] OTHER -> LeafDigits(node.left)

\* the ordered search is about to run its base case on the expression of the
\* innermost step: the step is entered and goes past its limits and its progress
\* report, or it is resumed after its progress report
BaseCaseStep ==
    /\ impl = "ordered"
    /\ stack # <<>>
    /\ Len(Top.remainingNumbers) = 0
    /\ \/ /\ pc = "suspended" /\ Top.at = "afterProgress" /\ pc' = "running"
       \/ /\ pc = "suspended" /\ Top.at = "afterProgress" /\ Len(events') > Len(events)
       \/ /\ pc = "running" /\ Top.at = "entry"
          /\ attempts' = attempts + 1
          /\ ~(attempts' >= config.maxAttempts /\ config.maxAttempts > 0)
          /\ ~(now - lastReportTime >= config.reportInterval)

(***************************************************************************)
(* C1: every solution event carries an expression whose direct evaluation  *)
(* (node.evaluate(), not the memo cache) equals the target within 1e-9.    *)
(***************************************************************************)
C1_SolutionEventsMeetTarget ==
    \A i \in EventsOf("solution") : TrueValueIsTarget(events[i].currentExpression)

\* C1 for the ordered search over the ast module that renders its nodes
C1_RenderedOrderedMeetTarget ==
    (impl = "ordered" /\ astModule = "rendering") => C1_SolutionEventsMeetTarget

(***************************************************************************)
(* C2: the leaves of every solution, read left to right, are exactly the   *)
(* input digits in their order: none skipped, reused or permuted, and none *)
(* left over when the expression was tested against the target.            *)
(***************************************************************************)
C2_SolutionsConsumeDigitsInOrder ==
    \A i \in 1..Len(solutions) : LeafDigits(solutions[i]) = numbers

\* C2 for the ordered search
C2_OrderedConsumeDigitsInOrder ==
    impl = "ordered" => C2_SolutionsConsumeDigitsInOrder

(***************************************************************************)
(* C3: at every point of a search no two entries of the solutions list     *)
(* render to the same canonical text.                                      *)
(***************************************************************************)
C3_NoTwoSolutionsRenderAlike ==
    \A i, j \in 1..Len(solutions) :
        i < j => NodeToString(solutions[i]) # NodeToString(solutions[j])

\* C3 for the ordered search
C3_OrderedNoTwoRenderAlike ==
    impl = "ordered" => C3_NoTwoSolutionsRenderAlike

(***************************************************************************)
(* C4: whenever a step with all digits consumed holds an expression whose  *)
(* true value is the target and that differs in structure from every       *)
(* stored solution, that step appends it to the solutions and reports it.  *)
(***************************************************************************)
C4_EveryNewSolutionIsReported ==
    [][(/\ BaseCaseStep
        /\ TrueValueIsTarget(Top.currentAst)
        /\ \A i \in 1..Len(solutions) : solutions[i].left # Top.currentAst)
       => /\ solutions' = Append(solutions, ExpressionNode(Top.currentAst, target))
          /\ Len(events') = Len(events) + 1
          /\ events'[Len(events')].type = "solution"
          /\ events'[Len(events')].currentExpression
                = ExpressionNode(Top.currentAst, target)]_vars

\* C4 for the ast module that renders its nodes
C4_RenderedNewSolutionIsReported ==
    [][(/\ astModule = "rendering"
        /\ BaseCaseStep
        /\ TrueValueIsTarget(Top.currentAst)
        /\ \A i \in 1..Len(solutions) : solutions[i].left # Top.currentAst)
       => solutions' = Append(solutions, ExpressionNode(Top.currentAst, target))]_vars

\* C1 for the ast module that renders its nodes
C1_RenderedMeetTarget == astModule = "rendering" => C1_SolutionEventsMeetTarget

(***************************************************************************)
(* C5: exactly one complete event is emitted, it is the last event of the  *)
(* stream, and it carries progress = 1 and the final attempt count.        *)
(***************************************************************************)
C5_OneCompleteEventLast ==
    /\ \A i \in EventsOf("complete") :
          /\ i = Len(events)
          /\ events[i].progress = <<1, 1>>
          /\ events[i].attempts = attempts
    /\ pc = "done" => Cardinality(EventsOf("complete")) = 1

\* a search cancelled between two events has ended, after a solution
C5_CancelledSearchDone ==
    /\ pc = "done"
    /\ events[Len(events)].type = "complete"
    /\ cancelMark.events >= 1
    /\ Len(solutions) >= 1
    /\ Len(events) >= 3

(***************************************************************************)
(* C6: the returned result has found = true exactly when a solution event  *)
(* was emitted, its expression is that of the first solution event, and    *)
(* its attempts are those of the complete event.                           *)
(***************************************************************************)
C6_ResultMatchesEvents ==
    pc = "done" =>
        /\ result.found = (EventsOf("solution") # {})
        /\ \A i \in EventsOf("solution") :
              (\A j \in EventsOf("solution") : i <= j)
                 => result.expression = events[i].currentExpression
        /\ EventsOf("complete") # {}
        /\ \A i \in EventsOf("complete") : result.attempts = events[i].attempts

\* a search that reported two or more solutions has returned
C6_ReturnedAfterTwoSolutions ==
    /\ pc = "done"
    /\ result.found
    /\ Cardinality(EventsOf("solution")) >= 2

(***************************************************************************)
(* C7: with a positive maxAttempts and timeout the search terminates: the  *)
(* generator yields complete and returns, also when no solution exists.    *)
(***************************************************************************)
C7_SearchTerminates ==
    (config.maxAttempts > 0 /\ config.timeout > 0)
        ~> (pc = "done" /\ EventsOf("complete") # {})

\* a search without a solution has returned
C7_ReturnedWithoutSolution ==
    /\ pc = "done"
    /\ EventsOf("complete") # {}
    /\ config.maxAttempts > 0
    /\ config.timeout > 0
    /\ ~result.found
    /\ attempts > 1

(***************************************************************************)
(* C8: for maxAttempts > 0 the attempts counter never exceeds maxAttempts, *)
(* in the counter, in every event and in the final result.                 *)
(***************************************************************************)
C8_AttemptsWithinLimit ==
    config.maxAttempts > 0 =>
        /\ attempts <= config.maxAttempts
        /\ \A i \in 1..Len(events) : events[i].attempts <= config.maxAttempts
        /\ pc = "done" => result.attempts <= config.maxAttempts

\* C8 for the ordered search
C8_OrderedAttemptsWithinLimit == impl = "ordered" => C8_AttemptsWithinLimit

\* C8 for the call of the test: digits [1], target 100, maxAttempts 10
C8_ScenarioC ==
    (numbers = <<1>> /\ target = 100 /\ config.maxAttempts = 10 /\ impl = "ordered")
        => /\ attempts <= 10
           /\ pc = "done" => ~result.found

(***************************************************************************)
(* C9: the solutions list never holds more than 10 entries, and once it    *)
(* holds 10 no further step of the search is counted and no further        *)
(* solution is reported.                                                   *)
(***************************************************************************)
C9_AtMostTenSolutions ==
    /\ [](Len(solutions) <= MaxSolutions)
    /\ [][Len(solutions) >= MaxSolutions
            => (attempts' = attempts /\ solutions' = solutions)]_vars

\* C9 for the ordered search
C9_OrderedAtMostTen == impl = "ordered" => Len(solutions) <= MaxSolutions

(***************************************************************************)
(* C10: after cancel() between two events no further progress or solution *)
(* event is emitted and no further attempt is counted, and found reflects  *)
(* the solutions collected before the cancel.                              *)
(***************************************************************************)
C10_CancelEndsSearch ==
    cancelMark.events >= 1 =>
        /\ attempts = cancelMark.attempts
        /\ \A i \in 1..Len(events) :
              i > cancelMark.events => events[i].type = "complete"
        /\ pc = "done" => result.found = (cancelMark.solutions > 0)

\* C10 for the ordered search
C10_OrderedCancelEndsSearch == impl = "ordered" => C10_CancelEndsSearch

\* C10 for the ordered search, the attempt count alone
C10_OrderedNoAttemptAfterCancel ==
    (impl = "ordered" /\ cancelMark.events >= 1) => attempts = cancelMark.attempts

(***************************************************************************)
(* C11: a cancel() issued at any time after solve() was called, also       *)
(* before the first event is requested, is not lost: the flag stays set    *)
(* and no further step of the search is counted.                           *)
(***************************************************************************)
C11_CancelNeverLost ==
    cancelMark.events >= 0 => (cancelled /\ attempts = cancelMark.attempts)

\* C11 for a cancel() issued after the first event
C11_CancelAfterFirstEventKept ==
    cancelMark.events >= 1 => cancelled

(***************************************************************************)
(* Evaluation errors.  A candidate is the expression a step evaluates: the *)
(* current expression in the checks of the ordered search and in its base  *)
(* case, the new node in the older search.                                 *)
(***************************************************************************)
\* the ordered search is about to check a unary operator on a current expression
\* whose evaluation throws
UnaryCheckThrows ==
    /\ impl = "ordered"
    /\ pc = "running"
    /\ stack # <<>>
    /\ Top.at = "unary"
    /\ Top.u <= Len(UnaryOperators)
    /\ UnaryEnabled(UnaryOperators[Top.u])
    /\ ~CapReached
    /\ ~evaluateWithCache(cache, Top.currentAst).ok

\* the checks of a binary operator throw on the left or on the right operand
BinaryChecksThrow(c, op, lhs, rhs) ==
    \/ op \in {"/", "%"} /\ ~evaluateWithCache(c, rhs).ok
    \/ /\ op = "^"
       /\ \E lv \in {evaluateWithCache(c, lhs)} :
             \/ ~lv.ok
             \/ ~CloseTo(lv.v, 1, 12) /\ ~evaluateWithCache(lv.cache, rhs).ok

\* the ordered search is about to check a binary operator, and the checks throw
BinaryCheckThrows ==
    /\ impl = "ordered"
    /\ pc = "running"
    /\ stack # <<>>
    /\ Top.at = "bin"
    /\ Top.b <= Len(BinaryOperators)
    /\ BinaryEnabled(BinaryOperators[Top.b])
    /\ ~CapReached
    /\ BinaryChecksThrow(cache, BinaryOperators[Top.b], Top.currentAst,
                         Top.finalRhsNodes[Top.f])

\* the innermost step of the ordered search holds a complete expression whose
\* evaluation throws
BaseCaseThrows ==
    /\ impl = "ordered"
    /\ stack # <<>>
    /\ Top.at \in {"entry", "afterProgress"}
    /\ Len(Top.remainingNumbers) = 0
    /\ ~evaluateWithCache(cache, Top.currentAst).ok

\* the node the older search is about to build and test, NoExpr when the turn
\* of its loop builds none
OlderCandidate ==
    IF impl = "older" /\ pc = "running" /\ stack # <<>>
    THEN CASE Top.at = "unary" /\ Top.u <= Len(UnaryOperators) ->
                 IF /\ UnaryEnabled(UnaryOperators[Top.u])
                    /\ ~(/\ UnaryOperators[Top.u] = "!"
                         /\ getFactorialDepth(Top.currentExpr) >= config.maxFactorialDepth)
                 THEN UnaryOpNode(UnaryOperators[Top.u], Top.currentExpr)
                 ELSE NoExpr
           [] Top.at = "binary" /\ Top.b <= Len(BinaryOperators) ->
                 IF /\ BinaryEnabled(BinaryOperators[Top.b])
                    /\ Top.i <= Len(numbers)
                    /\ Top.i \notin Top.usedIndices
                 THEN BinaryOpNode(Top.currentExpr, BinaryOperators[Top.b],
                                   NumberNode(IntV(numbers[Top.i])))
                 ELSE NoExpr
           [] OTHER -> NoExpr
    ELSE NoExpr

\* the older search is about to test a node whose evaluation throws
OlderTestThrows ==
    /\ OlderCandidate # NoExpr
    /\ ~evaluateWithCacheOn(cache, OlderCandidate, OldCacheLimit).ok

\* a step of the search in which the evaluation of the candidate throws
DomainErrorStep ==
    /\ now' = now
    /\ \/ UnaryCheckThrows
       \/ BinaryCheckThrows
       \/ OlderTestThrows
       \/ BaseCaseStep /\ BaseCaseThrows

\* the step gave up its candidate and nothing else: no report, the solutions and
\* the cache as before, at most this one attempt counted, the calling steps as
\* they were and the generator still running
CandidateAbandoned ==
    /\ solutions' = solutions
    /\ events' = events
    /\ cache' = cache
    /\ attempts' \in {attempts, attempts + 1}
    /\ pc' = "running"
    /\ solveAt' = solveAt
    /\ Len(stack') >= Len(stack) - 1
    /\ SubSeq(stack', 1, Len(stack) - 1) = Pop
    /\ impl = "ordered" => Len(stack') <= Len(stack)

\* the generator is done and the last report of the stream is the complete report
StreamCompleted ==
    /\ pc = "done"
    /\ events # <<>>
    /\ events[Len(events)].type = "complete"

(* C12: an evaluation error raised for one candidate (division or remainder by zero, invalid factorial or square-root operand, non-finite result) abandons only that candidate: the step reports nothing, leaves the solutions list alone, counts at most its own attempt, the calling steps go on, and the stream still ends with the complete report. *)
C12_DomainErrorAbandonsCandidate ==
    /\ [][DomainErrorStep => CandidateAbandoned]_vars
    /\ ((UnaryCheckThrows \/ BinaryCheckThrows \/ OlderTestThrows \/ BaseCaseThrows)
           ~> StreamCompleted)

\* C12: the first unary operator of the ordered search threw on a current
\* expression without a finite value, and the loop is at the second operator
C12_SearchWentOnAfterError ==
    /\ impl = "ordered"
    /\ pc = "running"
    /\ stack # <<>>
    /\ Top.at = "unary"
    /\ Top.u = 2
    /\ config.enableFactorial
    /\ ~evaluateWithCache(cache, Top.currentAst).ok
    /\ attempts >= 1

(* C13: an error that is neither an evaluation error nor the cancellation signal, raised inside a step of the recursive search, leaves solve(): the generator is done with the error and the search runs no further. *)
C13_UnexpectedErrorPropagates ==
    thrownIn => (pc = "done" /\ solveAt = "thrown")

\* C13 for an error raised in solve() itself or in the first step of the search
C13_ErrorInFirstStepPropagates ==
    [][(GeneratorThrow /\ Len(stack) <= 1 /\ (impl = "older" => stack = <<>>))
          => (pc' = "done" /\ solveAt' = "thrown")]_vars

(***************************************************************************)
(* The memo cache.                                                         *)
(***************************************************************************)
\* the expressions the running steps of the search hold and evaluate
SearchNodes ==
    {stack[i].currentAst : i \in {j \in 1..Len(stack) : impl = "ordered"}}
    \cup {stack[i].currentExpr :
             i \in {j \in 1..Len(stack) :
                       impl = "older" /\ stack[j].currentExpr # NoExpr}}

\* the cache answers for the node what node.evaluate() answers
CacheAgrees(node) ==
    toString(node) \in DOMAIN cache =>
        \E r \in {evaluate(node)} : r.ok /\ r.v = cache[toString(node)]

(* C14: memoization never alters results: for every expression the search holds, a value the cache returns for it is the value of its direct evaluation, so two expressions with different values never share a cache entry. *)
C14_CacheAgreesWithEvaluation ==
    \A node \in SearchNodes : CacheAgrees(node)

(* C15: the cache, the attempt counter and the solutions list of a search are changed by that search only: with a second solve() begun on the same Solver while the first is unfinished, the first stream still counts its attempts upwards, every solution it reported is still on its list, and its result says found exactly when it reported a solution. *)
C15_FirstSearchUndisturbed ==
    /\ \A i, j \in 1..Len(events) : i <= j => events[i].attempts <= events[j].attempts
    /\ Cardinality(EventsOf("solution")) <= Len(solutions)
    /\ (pc = "done" /\ solveAt = "returned")
          => result.found = (EventsOf("solution") # {})

(***************************************************************************)
(* Operator families.                                                      *)
(***************************************************************************)
\* the operator families an expression is built with
RECURSIVE Families(_)
Families(node) ==
    CASE node.type = "number" -> {}
      [] node.type = "concat" -> {"concat"}
      [] node.type = "unary_op" ->
            {IF node.operator = "-" THEN "neg" ELSE node.operator}
            \cup Families(node.operand)
      [] node.type = "binary_op" ->
            {node.operator} \cup Families(node.left) \cup Families(node.right)
      [] node.type = "expression" -> Families(node.left)
      [] OTHER -> {}

\* the enable flag of a family, as the configuration holds it
FamilyFlag(family) ==
    CASE family = "concat" -> config.enableConcatenation
      [] family = "+" -> config.enableAddition
      [] family = "-" -> config.enableSubtraction
      [] family = "*" -> config.enableMultiplication
      [] family = "/" -> config.enableDivision
      [] family = "^" -> config.enablePower
      [] family = "!" -> config.enableFactorial
      [] family = SQRT -> config.enableSquareRoot
      [] family = "neg" -> config.enableNegation
      [] OTHER -> config.enableModulo

\* every expression the search has built and still holds: in its running steps,
\* on its solutions list, in its reports and in its result
BuiltNodes ==
    {stack[i].currentAst : i \in {j \in 1..Len(stack) : impl = "ordered"}}
    \cup UNION {{stack[i].finalRhsNodes[k] : k \in 1..Len(stack[i].finalRhsNodes)} :
                   i \in {j \in 1..Len(stack) : impl = "ordered"}}
    \cup {stack[i].currentExpr : i \in {j \in 1..Len(stack) : impl = "older"}}
    \cup {stack[i].node : i \in {j \in 1..Len(stack) : impl = "older"}}
    \cup {solutions[i] : i \in 1..Len(solutions)}
    \cup {events[i].currentExpression : i \in 1..Len(events)}
    \cup {result.expression}

(* C16: no expression built by the search, and so no solution, contains an operator of a family whose enable flag is false; with enableConcatenation false no concatenation node is built. *)
C16_OnlyEnabledFamiliesBuilt ==
    \A node \in BuiltNodes : \A family \in Families(node) : FamilyFlag(family)

\* C16: with concatenation, multiplication and the unary families disabled, the
\* search holds a solution built with an enabled operator
C16_SolutionUnderDisabledFamilies ==
    /\ ~config.enableConcatenation
    /\ ~config.enableMultiplication
    /\ ~config.enableNegation
    /\ ~config.enableFactorial
    /\ \E i \in 1..Len(solutions) : "+" \in Families(solutions[i])

(***************************************************************************)
(* The scenarios of the specification.                                     *)
(***************************************************************************)
RECURSIVE SumOf(_)
SumOf(seq) == IF seq = <<>> THEN 0 ELSE Head(seq) + SumOf(Tail(seq))

\* solve() has returned and the search was ended by none of its limits: the
\* attempt limit and the timeout were not reached, cancel() was not called
EndedWithinLimits ==
    /\ pc = "done"
    /\ solveAt = "returned"
    /\ cancelMark = NoMark
    /\ now - startTime < config.timeout
    /\ \/ result.attempts < config.maxAttempts
       \/ impl = "ordered" /\ config.maxAttempts <= 0

\* the digits joined in order by + are a solution the search can reach
SumScenario ==
    /\ config.enableAddition
    /\ numbers # <<>>
    /\ SumOf(numbers) = target
    /\ impl = "ordered" => Len(numbers) <= config.maxDepth

(* C17: when addition is enabled, the digits joined in order by + sum to the target, the digit count is at most maxDepth, and the search ends without reaching maxAttempts or the timeout, solve() returns found = true with an expression for which isValid() is true. *)
C17_SumIsFound ==
    (SumScenario /\ EndedWithinLimits)
        => (result.found /\ isValid(result.expression))

\* C17 with the ast module whose nodes render themselves
C17_SumIsFoundRendering ==
    astModule = "rendering" => C17_SumIsFound

\* only concatenation is enabled and the digits, 2 to 4 of them, read as one
\* decimal number are the target
ConcatScenario ==
    /\ \A family \in AllFamilies : FamilyFlag(family) <=> family = "concat"
    /\ Len(numbers) \in MinConcat..MaxConcat
    /\ ParseJoined(numbers, 0) = target

(* C18: with concatenation enabled and every operator family disabled, for 2 to 4 digits whose decimal concatenation is the target, solve() returns found = true and the only solution is the concatenation node over all the digits. *)
C18_ConcatenationIsTheOnlySolution ==
    (ConcatScenario /\ EndedWithinLimits)
        => /\ result.found
           /\ solutions = <<ExpressionNode(ConcatNode(numbers), target)>>

\* C18 for the ordered search
C18_OrderedConcatenationOnly ==
    impl = "ordered" => C18_ConcatenationIsTheOnlySolution

\* C18 for the older search with the ast module whose nodes render themselves
C18_OlderRenderingConcatenationOnly ==
    (impl = "older" /\ astModule = "rendering") => C18_ConcatenationIsTheOnlySolution

\* every operator family is disabled, concatenation too, and there are two or
\* more digits
NothingEnabledScenario ==
    /\ \A family \in AllFamilies : ~FamilyFlag(family)
    /\ Len(numbers) >= 2

(* C19: with every operator family disabled, concatenation included, a search over two or more digits reports no solution and returns found = false for every target, also for a target equal to one of the digits. *)
C19_NothingEnabledNothingFound ==
    NothingEnabledScenario
        => /\ solutions = <<>>
           /\ EventsOf("solution") = {}
           /\ pc = "done" => ~result.found

\* C19 for the ordered search
C19_OrderedNothingFound ==
    impl = "ordered" => C19_NothingEnabledNothingFound

(* C20: when solve() returns found = false, the expression of the result is a sentinel for which isValid() is false, for every target, 0 included, and for an empty digit sequence too. *)
C20_NotFoundSentinelIsInvalid ==
    (pc = "done" /\ solveAt = "returned" /\ ~result.found)
        => ~isValid(result.expression)

\* C20 for the ordered search over one or more digits
C20_OrderedSentinelIsInvalid ==
    (impl = "ordered" /\ numbers # <<>>) => C20_NotFoundSentinelIsInvalid

(***************************************************************************)
(* Progress reports.                                                       *)
(***************************************************************************)
\* a search over one or more digits with room for two attempts and a positive
\* timeout
ProgressScenario ==
    /\ numbers # <<>>
    /\ config.maxAttempts >= 2
    /\ config.timeout > 0

\* the stream holds a progress report, and one before each solution report
ProgressComesFirst ==
    /\ EventsOf("progress") # {}
    /\ \A s \in EventsOf("solution") : \E p \in EventsOf("progress") : p < s

(* C21: a search over a non-empty digit sequence with maxAttempts >= 2 and a positive timeout yields at least one progress event, and that event comes before any solution event. *)
C21_ProgressBeforeSolutions ==
    (ProgressScenario /\ (pc = "done" \/ EventsOf("solution") # {}))
        => ProgressComesFirst

\* the first step of the search is let in and is due to report: the search has
\* depth to run in and the report interval is not longer than the clock reading
FirstStepReports ==
    /\ config.reportInterval <= startTime
    /\ impl = "ordered" => config.maxDepth >= 1

\* the timeout ran out before the first step was entered: nothing was reported
TimedOutAtOnce ==
    /\ now - startTime >= config.timeout
    /\ EventsOf("progress") = {}
    /\ EventsOf("solution") = {}

\* C21 amended: with a search depth of at least 1 and a report interval not longer than the clock reading, the stream holds a progress event before any solution event, unless the timeout ran out before the first step was entered
C21_ProgressBeforeSolutionsInTime ==
    (ProgressScenario /\ FirstStepReports /\ (pc = "done" \/ EventsOf("solution") # {}))
        => (ProgressComesFirst \/ TimedOutAtOnce)

\* C21: a finished search whose first report was a progress report and which
\* reported a solution after it
C21_SolutionAfterProgress ==
    /\ ProgressScenario
    /\ pc = "done"
    /\ events[1].type = "progress"
    /\ EventsOf("solution") # {}

\* two progress reports with no progress report between them
ConsecutiveProgress(i, j) ==
    /\ i < j
    /\ i \in EventsOf("progress")
    /\ j \in EventsOf("progress")
    /\ \A k \in EventsOf("progress") : ~(i < k /\ k < j)

(* C22: two consecutive progress events of a search are at least reportInterval milliseconds of clock time apart, whatever lies between them (solution events, a slow consumer). *)
C22_ProgressEventsApart ==
    \A i, j \in 1..Len(events) :
        ConsecutiveProgress(i, j)
            => events[j].duration - events[i].duration >= config.reportInterval

\* C22: a stream with two progress events and a solution event between them
C22_TwoProgressReports ==
    \E i, j \in 1..Len(events) :
        /\ ConsecutiveProgress(i, j)
        /\ \E s \in EventsOf("solution") : i < s /\ s < j

\* two fractions with the same value; a fraction with denominator 0 is no number
\* of the interval and equals none
SameFraction(x, y) == x[2] > 0 /\ y[2] > 0 /\ x[1] * y[2] = y[1] * x[2]

\* min(attempts / maxAttempts, elapsed / timeout, 1) as a fraction; attempts / 0
\* is Infinity for one or more attempts and NaN (<<0, 0>>) for none
MinOfThree(att, elapsed) ==
    IF config.maxAttempts = 0
    THEN IF att = 0 THEN <<0, 0>> ELSE MinFrac(<<elapsed, config.timeout>>, <<1, 1>>)
    ELSE MinFrac(MinFrac(<<att, config.maxAttempts>>, <<elapsed, config.timeout>>),
                 <<1, 1>>)

(* C23: the progress fraction of every progress event is min(attempts / maxAttempts, elapsed / timeout, 1) of the attempt count and the elapsed time the event carries, and lies between 0 and 1. *)
C23_ProgressFractionIsTheMinimum ==
    \A i \in EventsOf("progress") :
        /\ SameFraction(events[i].progress,
                        MinOfThree(events[i].attempts, events[i].duration))
        /\ 0 <= events[i].progress[1]
        /\ events[i].progress[1] <= events[i].progress[2]

\* C23: a progress event after time has passed, with a fraction above 0
C23_PositiveProgressReported ==
    \E i \in EventsOf("progress") :
        /\ events[i].duration > 0
        /\ events[i].progress[1] > 0
        /\ events[i].progress[2] > events[i].progress[1]


(***************************************************************************)
(* The library called outside a search: one expression tree is built and   *)
(* evaluate() or isValid() is called on it.  No search runs.               *)
(***************************************************************************)
\* the numbers a NumberNode of a probe holds
ProbeValues ==
    {IntV(-1), IntV(0), IntV(1), IntV(4), IntV(170), IntV(171), Rat(1, 2),
     Rat(-1, 2), Rat(343, 2), NaNV, InfV(1), InfV(-1)}

ProbeLeaves == {NumberNode(v) : v \in ProbeValues}

ProbeUnary == {UnaryOpNode(op, l) : op \in {"!", SQRT, "-"}, l \in ProbeLeaves}

\* right operands: numbers, and operations whose value is 0 or whose evaluation fails
ProbeRight ==
    ProbeLeaves
    \cup {UnaryOpNode("-", NumberNode(IntV(0))),
          BinaryOpNode(NumberNode(IntV(1)), "-", NumberNode(IntV(1))),
          UnaryOpNode(SQRT, NumberNode(IntV(-1)))}

ProbeBinary ==
    {BinaryOpNode(l, op, r) :
        l \in ProbeLeaves \cup {UnaryOpNode("!", NumberNode(IntV(-1)))},
        op \in {"/", "%"}, r \in ProbeRight}

ProbeNested ==
    {UnaryOpNode(op, u) : op \in {"!", SQRT},
        u \in {UnaryOpNode("-", NumberNode(v)) : v \in ProbeValues}
              \cup {UnaryOpNode("!", NumberNode(IntV(4))),
                    BinaryOpNode(NumberNode(IntV(1)), "/", NumberNode(IntV(0)))}}

ProbeNodes == ProbeLeaves \cup ProbeUnary \cup ProbeBinary \cup ProbeNested

PureInit ==
    /\ impl = "ordered"
    /\ astModule \in {"rendering", "plain"}
    /\ numbers = <<>>
    /\ target = 0
    /\ config = Constructor(Only(AllFamilies))
    /\ Constructed

\* the equations isValid() is called on
ProbeEquations ==
    {ExpressionNode(n, t) :
        n \in ProbeNodes
              \cup {BinaryOpNode(NumberNode(IntV(1)), "+", NumberNode(IntV(99)))},
        t \in {1, 100}}

EvalInit ==
    /\ PureInit
    /\ probe \in {[fn |-> "evaluate", at |-> "called", node |-> n, out |-> NoExpr] :
                     n \in ProbeNodes}
               \cup {[fn |-> "isValid", at |-> "called", node |-> n, out |-> NoExpr] :
                       n \in ProbeEquations}
    /\ page = NoPage

Idle ==
    UNCHANGED <<inputs, mailbox, page, thrownIn, secondBegun, cache, startTime, attempts,
                solutions, cancelled, lastReportTime, now, pc, solveAt, path,
                stack, events, result, cancelMark>>

\* node.evaluate() returns or throws
EvaluateNode ==
    /\ probe.fn = "evaluate"
    /\ probe.at = "called"
    /\ probe' = [probe EXCEPT !.at = "returned", !.out = evaluate(probe.node)]
    /\ Idle

\* equation.isValid() returns
IsValidNode ==
    /\ probe.fn = "isValid"
    /\ probe.at = "called"
    /\ probe' = [probe EXCEPT !.at = "returned", !.out = isValid(probe.node)]
    /\ Idle

EvalNext == EvaluateNode \/ IsValidNode

EvalSpec == EvalInit /\ [][EvalNext]_vars

(***************************************************************************)
(* C24: the worker forwards each report under its own kind                 *)
(***************************************************************************)
\* the entries of the page's solutions list: onmessage pushes payload.solution
\* of every 'solution' response that carries one
UiSolutions == {i \in 1..Len(Responses) : Responses[i].type = "solution"}

\* C24: the response posted for a report of the engine has the kind of that
\* report, no 'solution' response is posted for a report without an expression,
\* and the solutions list of the page has one entry for each 'solution' report
C24_ResponsesKeepTheKind ==
    /\ \A i \in 1..Len(events) :
          /\ Responses[i].type = events[i].type
          /\ Responses[i].type = "solution" => Responses[i].found
    /\ Cardinality(UiSolutions) = Cardinality(EventsOf("solution"))


(***************************************************************************)
(* C25: a 'cancel' message stops the running search                        *)
(***************************************************************************)
\* C25: once the page has posted a 'cancel' message during a search, the cancel
\* flag of that search is set at its next recursion entry: the search passes no
\* further entry check, so it counts no further attempt
C25_CancelMessageStopsSearch ==
    [][(cancelsSent > 0 /\ pc # "done" /\ attempts' > attempts) => cancelled]_vars


(***************************************************************************)
(* C26: one terminal response for a 'solve' message, and it is the last    *)
(***************************************************************************)
TerminalResponses ==
    {i \in 1..Len(Responses) : Responses[i].type \in {"complete", "error"}}

\* C26: the worker posts at most one terminal response ('complete' or 'error')
\* for the 'solve' message, exactly one once the search has ended, and no
\* response follows it, also when a 'cancel' message was sent
C26_OneTerminalResponseLast ==
    /\ Cardinality(TerminalResponses) <= 1
    /\ TerminalResponses \subseteq {Len(Responses)}
    /\ pc = "done" => TerminalResponses # {}


(***************************************************************************)
(* C27: operators outside their domain                                     *)
(***************************************************************************)
\* v > 170
Above170(v) ==
    CASE v.k = "rat" -> v.n > 170 * v.d
      [] v.k \in {"big", "inf"} -> v.n > 0
      [] OTHER -> FALSE

\* the error the operation at the root of node is to raise when its operands
\* have the values l and r (one operand: l), "" when the values are in its domain
DomainError(node, l, r) ==
    CASE node.type = "binary_op" /\ node.operator = "/" /\ IsZero(r) ->
            {"Division by zero"}
      [] node.type = "binary_op" /\ node.operator = "%" /\ IsZero(r) ->
            {"Modulo by zero"}
      [] node.type = "unary_op" /\ node.operator = "!"
            /\ (SignOf(l) < 0 \/ ~IsInteger(l)) /\ ~Above170(l) ->
            {"Factorial only defined for non-negative integers"}
      [] node.type = "unary_op" /\ node.operator = "!" /\ Above170(l) ->
            IF IsInteger(l) THEN {"Factorial overflow"}
            ELSE {"Factorial overflow",
                  "Factorial only defined for non-negative integers"}
      [] node.type = "unary_op" /\ node.operator = SQRT /\ SignOf(l) < 0 ->
            {"Square root of negative number"}
      [] OTHER -> {}

\* the outcomes of the operands of an operation
OperandsOf(node) ==
    IF node.type = "binary_op" THEN <<evaluate(node.left), evaluate(node.right)>>
    ELSE IF node.type = "unary_op" THEN <<evaluate(node.operand)>>
    ELSE <<>>

\* C27: evaluate() of an operation whose operands have values outside its domain
\* ('/' or '%' by 0, factorial of a negative, non-integer or above-170 value,
\* square root of a negative value) throws the error of that case, no value
C27_DomainErrorsRaised ==
    (probe.fn = "evaluate" /\ probe.at = "returned")
    => LET ops == OperandsOf(probe.node)
       IN (ops # <<>> /\ \A i \in 1..Len(ops) : ops[i].ok)
          => LET e == DomainError(probe.node, ops[1].v, ops[Len(ops)].v)
             IN e # {} => (~probe.out.ok /\ probe.out.err \in e)

C27_FactorialOverflowRaised ==
    /\ probe.fn = "evaluate"
    /\ probe.at = "returned"
    /\ probe.node = UnaryOpNode("!", NumberNode(IntV(171)))
    /\ probe.out = Throw("Factorial overflow")


(***************************************************************************)
(* C28: isValid() never throws                                             *)
(***************************************************************************)
\* |v - t| < 1e-10 for a value of the model and an integer t: a rational of the
\* model that differs from t is at least 1 / ValCap away from it
WithinTolerance(v, t) == v.k = "rat" /\ v.n = t * v.d

\* C28: isValid() returns a boolean whatever the evaluation of the root does:
\* false when the evaluation throws, false when the value is not within the
\* tolerance of the target (NaN is within no tolerance), true otherwise
C28_IsValidNeverThrows ==
    (probe.fn = "isValid" /\ probe.at = "returned")
    => LET r == evaluate(probe.node.left)
       IN /\ probe.out \in BOOLEAN
          /\ probe.out = (r.ok /\ WithinTolerance(r.v, probe.node.target))

C28_FailedEvaluationIsInvalid ==
    /\ probe.fn = "isValid"
    /\ probe.at = "returned"
    /\ probe.node.left = BinaryOpNode(NumberNode(IntV(1)), "/", NumberNode(IntV(0)))
    /\ probe.out = FALSE


(***************************************************************************)
(* The parser (parser/index.ts): parseInput on a text, given as the        *)
(* sequence of its characters.                                             *)
(***************************************************************************)
MaxText == 5    \* the longest text parseInput is called on

Chars == {"1", "2", "x", " ", "="}

Texts == UNION {[1..n -> Chars] : n \in 0..MaxText}

IsDigit(c) == c \in {"0", "1", "2", "3", "4", "5", "6", "7", "8", "9"}

DigitValue(c) == CHOOSE d \in 0..9 : ToString(d) = c

\* String.prototype.split(sep) for a one-character separator
RECURSIVE Split(_, _, _)
Split(text, sep, part) ==
    IF text = <<>> THEN <<part>>
    ELSE IF Head(text) = sep THEN <<part>> \o Split(Tail(text), sep, <<>>)
    ELSE Split(Tail(text), sep, Append(part, Head(text)))

RECURSIVE TrimStart(_)
TrimStart(text) ==
    IF text # <<>> /\ Head(text) = " " THEN TrimStart(Tail(text)) ELSE text

RECURSIVE TrimEnd(_)
TrimEnd(text) ==
    IF text # <<>> /\ text[Len(text)] = " "
    THEN TrimEnd(SubSeq(text, 1, Len(text) - 1)) ELSE text

\* String.prototype.trim
Trim(text) == TrimEnd(TrimStart(text))

\* split(/\s+/) of a trimmed text: the parts between the runs of white space
RECURSIVE SplitSpaces(_, _)
SplitSpaces(text, part) ==
    IF text = <<>> THEN <<part>>
    ELSE IF Head(text) = " " THEN <<part>> \o SplitSpaces(TrimStart(text), <<>>)
    ELSE SplitSpaces(Tail(text), Append(part, Head(text)))

\* the value of the longest prefix of decimal digits, -1 when it is empty
RECURSIVE DigitsPrefix(_, _, _)
DigitsPrefix(text, seen, acc) ==
    IF text # <<>> /\ IsDigit(Head(text))
    THEN DigitsPrefix(Tail(text), TRUE, acc * 10 + DigitValue(Head(text)))
    ELSE IF seen THEN acc ELSE -1

\* parseInt(s), radix 10: leading white space is skipped, the digits up to the
\* first other character are read, the rest is ignored; NaN without a digit
NaN == [nan |-> TRUE, n |-> 0]
parseInt(s) ==
    LET n == DigitsPrefix(TrimStart(s), FALSE, 0)
    IN IF n < 0 THEN NaN ELSE [nan |-> FALSE, n |-> n]

ParseError(message) == [ok |-> FALSE, numbers |-> <<>>, target |-> 0, err |-> message]

\* parseNumberSequence: the numbers, or the token that is no number
parseNumberSequence(input) ==
    LET tokens == SplitSpaces(Trim(input), <<>>)
        nums == [i \in 1..Len(tokens) |-> parseInt(tokens[i])]
    IN IF \E i \in 1..Len(nums) : nums[i].nan
       THEN ParseError("Invalid number")
       ELSE [ok |-> TRUE, numbers |-> [i \in 1..Len(nums) |-> nums[i].n],
             target |-> 0, err |-> ""]

\* parseInput
parseInput(input) ==
    LET parts == Split(input, "=", <<>>)
    IN IF Len(parts) # 2 THEN ParseError("Input must contain exactly one = sign")
       ELSE LET parsed == parseNumberSequence(parts[1])
                tgt == parseInt(Trim(parts[2]))
            IN IF ~parsed.ok THEN parsed
               ELSE IF tgt.nan THEN ParseError("Invalid target number")
               ELSE [parsed EXCEPT !.target = tgt.n]

ParseInit ==
    /\ PureInit
    /\ probe \in {[fn |-> "parseInput", at |-> "called", node |-> text, out |-> NoExpr] :
                     text \in Texts}
    /\ page = NoPage

\* parseInput(text) returns or throws
ParseInput ==
    /\ probe.fn = "parseInput"
    /\ probe.at = "called"
    /\ probe' = [probe EXCEPT !.at = "returned", !.out = parseInput(probe.node)]
    /\ Idle

ParseSpec == ParseInit /\ [][ParseInput]_vars

(***************************************************************************)
(* C29: parseInput rejects malformed text                                  *)
(***************************************************************************)
\* text is a number: decimal digits only, at least one
IsNumberText(text) == text # <<>> /\ \A i \in 1..Len(text) : IsDigit(text[i])

\* text has the shape '<number> <number> ... = <integer>'
WellFormed(text) ==
    LET parts == Split(text, "=", <<>>)
    IN /\ Len(parts) = 2
       /\ LET tokens == SplitSpaces(Trim(parts[1]), <<>>)
          IN \A i \in 1..Len(tokens) : IsNumberText(tokens[i])
       /\ IsNumberText(Trim(parts[2]))

\* C29: parseInput returns the digits and the target for a text of the shape
\* '<number> ... = <integer>' and throws for every other text: no or several
\* '=', a token left of '=' that is no number, a target that is no integer
C29_ParseInputRejectsMalformed ==
    (probe.fn = "parseInput" /\ probe.at = "returned")
    => (probe.out.ok <=> WellFormed(probe.node))


(***************************************************************************)
(* C30: one attempt for each invocation of the recursive search step       *)
(***************************************************************************)
\* findCombinationsRecursive has been invoked and is at its first statement
RecursionEntry ==
    /\ impl = "ordered"
    /\ pc = "running"
    /\ stack # <<>>
    /\ Top.at = "entry"

\* C30: an invocation of findCombinationsRecursive that is not cancelled
\* increases attempts by exactly one at its entry, whatever it does next,
\* also when it returns at once because of the depth limit or the timeout
C30_EveryInvocationCounted ==
    [][(RecursionEntry /\ ~cancelled /\ stack' # stack)
          => attempts' = attempts + 1]_vars


(***************************************************************************)
(* C31: the depth limit                                                    *)
(***************************************************************************)
\* a recursive step has been entered at or beyond the depth limit:
\* findCombinationsRecursive with depth >= maxDepth, buildComplexExpressions
\* with depth >= 6
AtDepthLimit ==
    /\ pc = "running"
    /\ stack # <<>>
    /\ ~cancelled
    /\ IF impl = "ordered"
       THEN Top.at = "entry" /\ Top.depth >= config.maxDepth
       ELSE Top.at = "build" /\ Top.depth >= OldMaxDepth

\* C31: a recursive step entered at depth >= maxDepth returns at once: it tests
\* nothing (the cache and the solutions stay), emits no event and calls no
\* further step, also when no digit remains
C31_DepthLimitReturnsAtOnce ==
    [][(AtDepthLimit /\ stack' # stack)
          => /\ stack' = Pop
             /\ events' = events
             /\ solutions' = solutions
             /\ cache' = cache
             /\ pc' = pc]_vars

\* a step at the depth limit that holds an expression over all digits which
\* meets the target
C31_SolutionBeyondDepthLimit ==
    /\ AtDepthLimit
    /\ impl = "ordered"
    /\ Top.remainingNumbers = <<>>
    /\ isValid(ExpressionNode(Top.currentAst, target))


(***************************************************************************)
(* C32: the timeout                                                        *)
(***************************************************************************)
\* C32: once the timeout has elapsed the search emits no 'solution' and no
\* 'progress' event: each such event is emitted at an elapsed time below the
\* timeout
C32_NoEventAfterTimeout ==
    \A i \in EventsOf("solution") \cup EventsOf("progress") :
        events[i].duration < config.timeout


(***************************************************************************)
(* C33: where the search applies no factorial                              *)
(***************************************************************************)
\* the nodes of an expression tree
RECURSIVE SubNodes(_)
SubNodes(node) ==
    CASE node.type = "unary_op" -> {node} \cup SubNodes(node.operand)
      [] node.type = "binary_op" ->
            {node} \cup SubNodes(node.left) \cup SubNodes(node.right)
      [] node.type = "expression" -> SubNodes(node.left)
      [] node.type = "none" -> {}
      [] OTHER -> {node}

\* the operand of a factorial the search may build: its value is an integer
\* from 0 to 15 other than 1 and 2, and it is not yet a chain of
\* maxFactorialDepth factorials
FactorialOperandAllowed(operand) ==
    /\ getFactorialDepth(operand) < config.maxFactorialDepth
    /\ \E r \in {evaluate(operand)} :
          /\ r.ok
          /\ r.v.k = "rat"
          /\ r.v.d = 1
          /\ r.v.n \in (0..FactorialCeiling) \ {1, 2}

\* C33: every factorial node the search builds stands over an operand whose
\* value is a non-negative integer, at most 15 and neither 1 nor 2, and which is
\* not already a chain of maxFactorialDepth factorials
C33_FactorialOnlyWhereAllowed ==
    impl = "ordered" => \A node \in BuiltNodes :
        \A sub \in SubNodes(node) :
            (sub.type = "unary_op" /\ sub.operator = "!")
                => FactorialOperandAllowed(sub.operand)


(***************************************************************************)
(* C34: concatenation groups 2 to 4 consecutive digits                     *)
(***************************************************************************)
\* the digits an expression consumes, from left to right
RECURSIVE Digits(_)
Digits(node) ==
    CASE node.type = "number" -> <<node.value.n>>
      [] node.type = "concat" -> node.numbers
      [] node.type = "unary_op" -> Digits(node.operand)
      [] node.type = "binary_op" -> Digits(node.left) \o Digits(node.right)
      [] node.type = "expression" -> Digits(node.left)
      [] OTHER -> <<>>

\* only concatenation is enabled
ConcatenationAlone ==
    \A family \in AllFamilies : FamilyFlag(family) <=> family = "concat"

\* C34: in the ordered search every concatenation node groups 2 to 4 digits,
\* the digits of the expression of a step followed by its remaining digits are
\* the input, so every group is a run of consecutive positions that begins at
\* the next unconsumed one; 5 or more digits are not matched by concatenation alone
C34_ConcatenationOfConsecutiveDigits ==
    impl = "ordered" =>
        /\ \A node \in BuiltNodes : \A sub \in SubNodes(node) :
              sub.type = "concat" => Len(sub.numbers) \in MinConcat..MaxConcat
        /\ \A i \in 1..Len(stack) :
              Digits(stack[i].currentAst) \o stack[i].remainingNumbers = numbers
        /\ \A i \in 1..Len(solutions) : Digits(solutions[i]) = numbers
        /\ (ConcatenationAlone /\ Len(numbers) > MaxConcat) => solutions = <<>>

C34_FiveDigitsNotMatched ==
    /\ impl = "ordered"
    /\ ConcatenationAlone
    /\ Len(numbers) > MaxConcat
    /\ ParseJoined(numbers, 0) = target
    /\ pc = "done"
    /\ ~result.found


(***************************************************************************)
(* C35: more digits than levels                                            *)
(***************************************************************************)
\* the ordered search without concatenation over more digits than maxDepth
MoreDigitsThanDepth ==
    /\ impl = "ordered"
    /\ ~config.enableConcatenation
    /\ Len(numbers) > config.maxDepth

\* C35: without concatenation a search over more digits than maxDepth finds no
\* solution: none on its list, no 'solution' event, found = false
C35_MoreDigitsThanDepthUnsolved ==
    MoreDigitsThanDepth
        => /\ solutions = <<>>
           /\ EventsOf("solution") = {}
           /\ pc = "done" => ~result.found

\* a search over n digits and maxDepth = n - 1 >= 1 levels whose sum is the
\* target has ended
C35_SumBeyondDepthUnsolved ==
    /\ MoreDigitsThanDepth
    /\ config.maxDepth >= 1
    /\ config.enableAddition
    /\ SumOf(numbers) = target
    /\ pc = "done"
    /\ ~result.found


(***************************************************************************)
(* C36: no unary operator over an expression that consumed every digit     *)
(***************************************************************************)
\* the solutions the ordered search has listed, reported and returned
FoundSolutions ==
    {solutions[i] : i \in 1..Len(solutions)}
    \cup {events[i].currentExpression : i \in EventsOf("solution")}
    \cup (IF result # NoResult /\ result.found THEN {result.expression} ELSE {})

\* C36: in the ordered search no step holds a unary operation over all digits,
\* the root of every solution is a leaf or a binary operation, and a
\* single-digit input is solved only by the digit itself
C36_NoUnaryOverAllDigits ==
    impl = "ordered" =>
        /\ \A i \in 1..Len(stack) :
              stack[i].currentAst.type = "unary_op"
                  => stack[i].remainingNumbers # <<>>
        /\ \A s \in FoundSolutions :
              s.left.type \in {"number", "concat", "binary_op"}
        /\ (Len(numbers) = 1 /\ FoundSolutions # {}) => numbers[1] = target

\* solve([4], 24) with the factorial enabled has ended without a solution
C36_FactorialOfSingleDigitUnsolved ==
    /\ impl = "ordered"
    /\ numbers = <<4>>
    /\ target = 24
    /\ config.enableFactorial
    /\ pc = "done"
    /\ ~result.found


(***************************************************************************)
(* The Playground page (views/Playground.vue) and its worker.  The page    *)
(* posts 'solve' and 'cancel' messages; the worker handles one message at  *)
(* a time and posts its responses, which the page receives in order.  The  *)
(* responses carry no mark of the request they answer: the model tags them *)
(* with it (id) to state what the page shows, the page never reads the tag.*)
(***************************************************************************)
MaxRequests == 2    \* the page posts at most this many 'solve' messages
MaxStops == 1       \* the page posts at most this many 'cancel' messages
MaxReports == 2     \* a search yields at most this many reports

Mounted ==
    [mounted |-> TRUE, isRunning |-> FALSE, isCompleted |-> FALSE,
     solutions |-> <<>>, sent |-> 0, stops |-> 0, toWorker |-> <<>>,
     toPage |-> <<>>, working |-> 0, left |-> 0]

PageInit ==
    /\ PureInit
    /\ probe = NoProbe
    /\ page = Mounted

PageIdle ==
    UNCHANGED <<inputs, mailbox, probe, thrownIn, secondBegun, cache, startTime,
                attempts, solutions, cancelled, lastReportTime, now, pc, solveAt,
                path, stack, events, result, cancelMark>>

\* handleButtonClick when nothing runs and the 'completed' mark is off:
\* handleSolve clears the list and posts a 'solve' message
PageHandleSolve ==
    /\ ~page.isRunning
    /\ ~page.isCompleted
    /\ page.sent < MaxRequests
    /\ page' = [page EXCEPT !.solutions = <<>>, !.isRunning = TRUE,
                            !.isCompleted = FALSE, !.sent = page.sent + 1,
                            !.toWorker = Append(page.toWorker,
                                [type |-> "solve", id |-> page.sent + 1])]
    /\ PageIdle

\* handleButtonClick while running: handleStop posts a 'cancel' message
PageHandleStop ==
    /\ page.isRunning
    /\ page.stops < MaxStops
    /\ page' = [page EXCEPT !.isRunning = FALSE, !.stops = page.stops + 1,
                            !.toWorker = Append(page.toWorker,
                                [type |-> "cancel", id |-> 0])]
    /\ PageIdle

\* the timer set by a 'complete' response takes the 'completed' mark off
CompletedTimer ==
    /\ page.isCompleted
    /\ page' = [page EXCEPT !.isCompleted = FALSE]
    /\ PageIdle

\* the worker's listener takes the next message when no message is being
\* handled: a 'solve' starts handleSolve, whose parseInput may throw; a 'cancel'
\* runs handleCancel
WorkerListener ==
    /\ page.working = 0
    /\ page.toWorker # <<>>
    /\ LET message == Head(page.toWorker)
           taken == [page EXCEPT !.toWorker = Tail(page.toWorker)]
       IN IF message.type = "cancel"
          THEN page' = [taken EXCEPT !.toPage = Append(page.toPage,
                                        [type |-> "complete", id |-> 0])]
          ELSE \/ \E reports \in 1..MaxReports :
                     page' = [taken EXCEPT !.working = message.id, !.left = reports]
               \/ page' = [taken EXCEPT !.toPage = Append(page.toPage,
                                           [type |-> "error", id |-> message.id])]
    /\ PageIdle

\* handleSolve forwards the next report of the generator as a 'solution' response
WorkerForward ==
    /\ page.working # 0
    /\ page.left > 0
    /\ page' = [page EXCEPT !.left = page.left - 1,
                            !.toPage = Append(page.toPage,
                                [type |-> "solution", id |-> page.working])]
    /\ PageIdle

\* handleSolve posts 'complete' after the last report and returns
WorkerComplete ==
    /\ page.working # 0
    /\ page.left = 0
    /\ page' = [page EXCEPT !.working = 0,
                            !.toPage = Append(page.toPage,
                                [type |-> "complete", id |-> page.working])]
    /\ PageIdle

\* worker.onmessage
OnMessage ==
    /\ page.toPage # <<>>
    /\ LET response == Head(page.toPage)
           received == [page EXCEPT !.toPage = Tail(page.toPage)]
       IN page' = CASE response.type = "solution" ->
                         [received EXCEPT !.solutions =
                                              Append(page.solutions, response.id)]
                    [] response.type = "complete" ->
                         [received EXCEPT !.isRunning = FALSE, !.isCompleted = TRUE]
                    [] OTHER ->
                         [received EXCEPT !.isRunning = FALSE, !.isCompleted = FALSE]
    /\ PageIdle

PageNext ==
    \/ PageHandleSolve
    \/ PageHandleStop
    \/ CompletedTimer
    \/ WorkerListener
    \/ WorkerForward
    \/ WorkerComplete
    \/ OnMessage

PageSpec == PageInit /\ [][PageNext]_vars

(***************************************************************************)
(* C37: the page shows the solutions of the most recent request            *)
(***************************************************************************)
\* a 'solve' request of the page is unfinished: its message is queued or being
\* handled, or a response to it is on its way to the page
UnfinishedRequest ==
    \/ \E i \in 1..Len(page.toWorker) : page.toWorker[i].type = "solve"
    \/ page.working # 0
    \/ \E i \in 1..Len(page.toPage) : page.toPage[i].id # 0

\* C37: every entry of the solutions list of the page answers the most recent
\* 'solve' request, and isRunning is false when no 'solve' request is unfinished
C37_SolutionsOfLatestRequest ==
    /\ \A i \in 1..Len(page.solutions) : page.solutions[i] = page.sent
    /\ ~UnfinishedRequest => ~page.isRunning


(***************************************************************************)
(* The memo cache on its own: checkSolution is called on a sequence of     *)
(* expressions, once with a cache that is cleared above a small bound and  *)
(* once with a cache whose bound is never reached.  The bound of the code  *)
(* (100,000 or 10,000 entries) is scaled down to ScaledCacheLimit, the     *)
(* code of AttemptCache.set is the same for every bound.                   *)
(***************************************************************************)
ScaledCacheLimit == 2   \* the bound of the cache that is cleared
MaxChecks == 5          \* the number of checkSolution calls

\* expressions over 9, 1 and 4; sqrt(9!) and (sqrt 9)! have the same toString
CacheNodes ==
    LET nine == NumberNode(IntV(9))
    IN {nine, NumberNode(IntV(1)), NumberNode(IntV(4)),
        UnaryOpNode("!", nine), UnaryOpNode(SQRT, nine),
        UnaryOpNode(SQRT, UnaryOpNode("!", nine)),
        UnaryOpNode("!", UnaryOpNode(SQRT, nine))}

CacheInit ==
    /\ impl = "ordered"
    /\ astModule \in {"rendering", "plain"}
    /\ numbers = <<9>>
    /\ target = 6
    /\ config = Constructor(Only(AllFamilies))
    /\ Constructed
    /\ page = NoPage
    /\ probe = [fn |-> "checkSolution", calls |-> 0, cleared |-> EmptyCache,
                kept |-> EmptyCache, node |-> NoExpr, accepted |-> FALSE,
                acceptedKept |-> FALSE]

\* checkSolution(node, target) with the cache bounded by limit
checkSolutionOn(c, node, limit) ==
    The({Meets(r, 9) : r \in {evaluateWithCacheOn(c, node, limit)}})

\* one call of checkSolution, on both caches
CheckSolution ==
    /\ probe.fn = "checkSolution"
    /\ probe.calls < MaxChecks
    /\ \E node \in CacheNodes :
          \E a \in {checkSolutionOn(probe.cleared, node, ScaledCacheLimit)},
             b \in {checkSolutionOn(probe.kept, node, CacheLimit)} :
             probe' = [probe EXCEPT !.calls = probe.calls + 1, !.node = node,
                                    !.cleared = a.cache, !.kept = b.cache,
                                    !.accepted = a.is, !.acceptedKept = b.is]
    /\ UNCHANGED <<inputs, mailbox, page, thrownIn, secondBegun, cache, startTime,
                   attempts, solutions, cancelled, lastReportTime, now, pc, solveAt,
                   path, stack, events, result, cancelMark>>

CacheSpec == CacheInit /\ [][CheckSolution]_vars

(***************************************************************************)
(* C38: the bound of the memo cache                                        *)
(***************************************************************************)
\* the cache that is cleared holds at most its bound plus one entries
CacheWithinBound == Cardinality(DOMAIN probe.cleared) <= ScaledCacheLimit + 1

====
